---- MODULE Spec2Model ----
(***************************************************************************)
(* Verification model of the MCP tool-invocation gateway                   *)
(* (epurn/mcp-gateway): policy engine, token-bucket rate limiter, tool     *)
(* registry cache, backend proxy, audit recorder, gateway service, MCP     *)
(* transport and the async job runner.                                     *)
(*                                                                         *)
(* Conventions                                                             *)
(*  - Python lists are sequences, Python sets are sets, dicts are          *)
(*    functions whose DOMAIN is the set of keys present.                   *)
(*  - None is the string "<None>".                                         *)
(*  - A Python exception leaving a function is the outcome string naming   *)
(*    the exception class.                                                 *)
(***************************************************************************)
EXTENDS Integers, Sequences, FiniteSets, Bags, TLC

None == "<None>"

Range(s) == {s[i] : i \in DOMAIN s}

(***************************************************************************)
(* ------------------------------ POLICY --------------------------------- *)
(* src/src/auth/policy.py                                                  *)
(***************************************************************************)

VARIABLES
    policy,     \* the PolicyConfig returned by load_policy (memoized)
    perm        \* the last check_tool_permission call and what it returned

policyVars == <<policy, perm>>

\* Inputs of the policy engine -------------------------------------------
RoleNames == {"admin", "developer"}
PolicyTools == {"exact_calculate", "document_generate"}
RoleLists == {<<>>, <<"*">>, <<"exact_calculate">>,
              <<"exact_calculate", "document_generate">>}
WsAllowedLists == {<<>>, <<"*">>, <<"exact_calculate">>}
WsDeniedLists == {<<>>, <<"document_generate">>, <<"exact_calculate">>}
RequiredRoleLists == {<<>>, <<"admin">>}

\* one entry of PolicyConfig.workspaces: a dict in which the key
\* allowed_tools may be left out
WorkspaceConfig(declared, wa, wd) ==
    [k \in (IF declared THEN {"allowed_tools"} ELSE {}) \cup {"denied_tools"} |->
        IF k = "allowed_tools" THEN wa ELSE wd]

WorkspaceConfigs ==
    { WorkspaceConfig(TRUE, wa, wd) : wa \in WsAllowedLists, wd \in WsDeniedLists }
        \cup { WorkspaceConfig(FALSE, <<>>, wd) : wd \in WsDeniedLists }

\* PolicyConfig: roles / workspaces / tools are dicts.
PolicySet ==
    { [roles |-> r,
       workspaces |-> [w \in {"production"} |-> wc],
       tools |-> [t \in {"document_generate"} |-> [required_roles |-> rr]]] :
         r \in [RoleNames -> RoleLists],
         wc \in WorkspaceConfigs,
         rr \in RequiredRoleLists }

ClaimsSet ==
    { [user_id |-> "u1", roles |-> rs, workspace |-> ws] :
         rs \in {<<>>, <<"admin">>, <<"developer">>, <<"admin", "developer">>},
         ws \in {None, "production", "staging"} }

CheckedTools == PolicyTools \cup {"delete_file"}

\* policy.roles.get(role, {}).get("allowed_tools", [])
RoleAllowedTools(pol, role) ==
    IF role \in DOMAIN pol.roles THEN pol.roles[role] ELSE <<>>

\* policy.workspaces.get(ws, {}).get(key, [])
WorkspaceList(pol, ws, key) ==
    IF ws \in DOMAIN pol.workspaces /\ key \in DOMAIN pol.workspaces[ws]
       THEN pol.workspaces[ws][key] ELSE <<>>

\* policy.tools.get(tool_name, {}).get("required_roles", [])
PolicyRequiredRoles(pol, tool_name) ==
    IF tool_name \in DOMAIN pol.tools THEN pol.tools[tool_name].required_roles
    ELSE <<>>

\* Step 1 of get_allowed_tools_for_user: the loop over claims.roles.
RoleUnion(claims, pol) ==
    UNION { IF RoleAllowedTools(pol, claims.roles[i]) = <<"*">>
               THEN {"*"}
               ELSE Range(RoleAllowedTools(pol, claims.roles[i])) :
            i \in DOMAIN claims.roles }

\* Step 2: the allowed set after the workspace allow-list is applied.
AfterWorkspaceAllow(claims, pol) ==
    LET base == RoleUnion(claims, pol)
        ws_allowed == WorkspaceList(pol, claims.workspace, "allowed_tools")
    IN  IF claims.workspace \in {None, ""} THEN base
        ELSE IF ws_allowed = <<"*">> THEN base \cup {"*"}
        ELSE IF ws_allowed # <<>> THEN Range(ws_allowed)
        ELSE base

\* Step 2, second half: denied_tools.update(ws_denied)
WorkspaceDenied(claims, pol) ==
    IF claims.workspace \in {None, ""} THEN {}
    ELSE Range(WorkspaceList(pol, claims.workspace, "denied_tools"))

\* get_allowed_tools_for_user(claims, policy)
get_allowed_tools_for_user(claims, pol) ==
    LET allowed_tools == AfterWorkspaceAllow(claims, pol)
        denied_tools == WorkspaceDenied(claims, pol)
    IN  IF "*" \notin allowed_tools THEN allowed_tools \ denied_tools
        ELSE IF "admin" \notin Range(claims.roles)
             THEN allowed_tools \ denied_tools
        ELSE allowed_tools

\* any(role in held for role in required)
AnyRoleHeld(required, held) == \E i \in DOMAIN required : required[i] \in Range(held)

\* check_tool_permission(claims, tool_name, policy)
check_tool_permission(claims, tool_name, pol) ==
    LET allowed_tools == get_allowed_tools_for_user(claims, pol)
        required_roles == PolicyRequiredRoles(pol, tool_name)
    IN  IF "*" \in allowed_tools THEN TRUE
        ELSE IF required_roles # <<>> /\ ~AnyRoleHeld(required_roles, claims.roles)
             THEN FALSE
        ELSE tool_name \in allowed_tools

NoPerm == [called |-> FALSE]

PolicyInit ==
    /\ policy \in PolicySet
    /\ perm = NoPerm

PolicyIdle ==
    /\ policy = [roles |-> [r \in RoleNames |-> <<"*">>],
                 workspaces |-> << >>, tools |-> << >>]
    /\ perm = NoPerm

\* One call check_tool_permission(claims, tool_name, policy).
CheckToolPermission ==
    \E claims \in ClaimsSet, tool_name \in CheckedTools :
        /\ perm' = [called |-> TRUE,
                    claims |-> claims,
                    tool_name |-> tool_name,
                    allowed_tools |-> get_allowed_tools_for_user(claims, policy),
                    permitted |-> check_tool_permission(claims, tool_name, policy)]
        /\ UNCHANGED policy

(***************************************************************************)
(* --------------------------- RATE LIMITER ------------------------------ *)
(* src/src/ratelimit/limiter.py                                            *)
(*                                                                         *)
(* Token amounts are kept in units of 1/60 token (TokenUnit), so that the  *)
(* refill elapsed * requests_per_minute / 60.0 is an integer for a clock   *)
(* read in whole seconds.  retry_after is the fraction <<num, den>>.       *)
(***************************************************************************)

VARIABLES
    now,         \* the reading of time.time(), in seconds
    limiter,     \* the RateLimiter singleton: [buckets, last_cleanup]
    rl,          \* the last check_rate_limit call and what it returned
    bucketHist,  \* per key: when the bucket was created, consume calls since
    nchecks,     \* number of check_rate_limit calls made so far
    nticks       \* number of times the clock has been advanced

rlVars == <<now, limiter, rl, bucketHist, nchecks, nticks>>

TokenUnit == 60                 \* tokens_per_second = requests_per_minute / 60.0
SecondsPerMinute == 60          \* reset_at = int(last_update + 60)
CleanupInterval == 300          \* RateLimiter._cleanup_interval
StaleAge == 600                 \* stale_time = time.time() - 600
DefaultRequestsPerMinute == 1000
DefaultBurstSize == 2000
ToolRequestsPerMinute == 100
ToolBurstSize == 200

MaxChecks == 3                  \* check_rate_limit calls explored
MaxTicks == 2                   \* clock advances explored

RateLimitConfig(rpm, burst) == [requests_per_minute |-> rpm, burst_size |-> burst]

\* RateLimiter().config: RateLimitConfig() with its field defaults
DefaultConfig == RateLimitConfig(DefaultRequestsPerMinute, DefaultBurstSize)
\* the per-tool config built in check_rate_limit when none is given
DefaultToolConfig == RateLimitConfig(ToolRequestsPerMinute, ToolBurstSize)

\* the config argument of check_rate_limit: None or a custom config
CustomConfigs == {RateLimitConfig(60, 1), RateLimitConfig(30, 2)}
NoConfig == [none |-> TRUE]     \* config=None
ConfigArgs == {NoConfig} \cup CustomConfigs

RLUsers == {"u1"}
RLTools == {"exact_calculate", "document_generate"}
ClockSteps == {1, 300, 601}

Min(a, b) == IF a < b THEN a ELSE b

\* f"user:{user_id}" and f"user:{user_id}:tool:{tool_name}"
UserKey(user_id) == "user:" \o user_id
ToolKey(user_id, tool_name) == "user:" \o user_id \o ":tool:" \o tool_name

\* TokenBucket.__init__
NewBucket(config, t) ==
    [config |-> config, tokens |-> config.burst_size * TokenUnit, last_update |-> t]

\* TokenBucket._refill
Refill_uncapped(b, t) ==
    [b EXCEPT !.tokens = b.tokens + (t - b.last_update) * b.config.requests_per_minute,
              !.last_update = t]
Refill(b, t) ==
    [b EXCEPT !.tokens = Min(b.config.burst_size * TokenUnit,
                             b.tokens + (t - b.last_update) * b.config.requests_per_minute),
              !.last_update = t]

\* Consume with the comparison of line 85 written as > instead of >=
Consume_strict(b, tokens, t) ==
    LET r == Refill(b, t)
        need == tokens * TokenUnit
    IN  IF r.tokens > need
        THEN [bucket |-> [r EXCEPT !.tokens = r.tokens - need],
              result |-> [allowed |-> TRUE,
                          limit |-> r.config.requests_per_minute,
                          remaining |-> (r.tokens - need) \div TokenUnit,
                          reset_at |-> r.last_update + SecondsPerMinute,
                          retry_after |-> <<0, 1>>]]
        ELSE [bucket |-> r,
              result |-> [allowed |-> FALSE,
                          limit |-> r.config.requests_per_minute,
                          remaining |-> 0,
                          reset_at |-> r.last_update + SecondsPerMinute,
                          retry_after |-> <<need - r.tokens,
                                            r.config.requests_per_minute>>]]

\* TokenBucket.consume(tokens): the bucket afterwards and the RateLimitResult
Consume(b, tokens, t) ==
    LET r == Refill(b, t)
        need == tokens * TokenUnit
    IN  IF r.tokens >= need
        THEN [bucket |-> [r EXCEPT !.tokens = r.tokens - need],
              result |-> [allowed |-> TRUE,
                          limit |-> r.config.requests_per_minute,
                          remaining |-> (r.tokens - need) \div TokenUnit,
                          reset_at |-> r.last_update + SecondsPerMinute,
                          retry_after |-> <<0, 1>>]]
        ELSE [bucket |-> r,
              result |-> [allowed |-> FALSE,
                          limit |-> r.config.requests_per_minute,
                          remaining |-> 0,
                          reset_at |-> r.last_update + SecondsPerMinute,
                          retry_after |-> <<need - r.tokens,
                                            r.config.requests_per_minute>>]]

\* RateLimiter._cleanup_old_buckets
CleanupOldBuckets_eager(L, t) ==
    IF t - L.last_cleanup < CleanupInterval THEN L
    ELSE LET keep == {k \in DOMAIN L.buckets :
                         ~(L.buckets[k].last_update < t - CleanupInterval)}
         IN  [buckets |-> [k \in keep |-> L.buckets[k]], last_cleanup |-> t]
CleanupOldBuckets(L, t) ==
    IF t - L.last_cleanup < CleanupInterval THEN L
    ELSE LET keep == {k \in DOMAIN L.buckets : ~(L.buckets[k].last_update < t - StaleAge)}
         IN  [buckets |-> [k \in keep |-> L.buckets[k]], last_cleanup |-> t]

\* RateLimiter.check(key, config): the limiter afterwards, the result, and
\* whether the bucket was created by this call.
LimiterCheck(L, key, config, t) ==
    LET C == CleanupOldBuckets(L, t)
        created == key \notin DOMAIN C.buckets
        b == IF created
                THEN NewBucket(IF config = NoConfig THEN DefaultConfig ELSE config, t)
                ELSE C.buckets[key]
        c == Consume(b, 1, t)
    IN  [limiter |-> [C EXCEPT !.buckets =
                         [k \in DOMAIN C.buckets \cup {key} |->
                             IF k = key THEN c.bucket ELSE C.buckets[k]]],
         result |-> c.result,
         key |-> key,
         created |-> created]

\* check_rate_limit without the early return of lines 193-194: the tool
\* bucket is checked whatever the user bucket said.
check_rate_limit_no_short_circuit(L, user_id, tool_name, config, t) ==
    LET u == LimiterCheck(L, UserKey(user_id), config, t)
        tool_config == IF config = NoConfig THEN DefaultToolConfig ELSE config
        tl == LimiterCheck(u.limiter, ToolKey(user_id, tool_name), tool_config, t)
    IN  IF tool_name \in {None, ""}
        THEN [limiter |-> u.limiter, result |-> u.result, checks |-> <<u>>]
        ELSE [limiter |-> tl.limiter,
              result |-> IF u.result.allowed THEN tl.result ELSE u.result,
              checks |-> <<u, tl>>]

\* check_rate_limit(user_id, tool_name, config): the limiter afterwards, the
\* returned RateLimitResult and the limiter.check calls made, in order.
check_rate_limit(L, user_id, tool_name, config, t) ==
    LET u == LimiterCheck(L, UserKey(user_id), config, t)
    IN  IF ~u.result.allowed
        THEN [limiter |-> u.limiter, result |-> u.result, checks |-> <<u>>]
        ELSE IF tool_name \notin {None, ""}
        THEN LET tool_config == IF config = NoConfig THEN DefaultToolConfig ELSE config
                 tl == LimiterCheck(u.limiter, ToolKey(user_id, tool_name), tool_config, t)
             IN  [limiter |-> tl.limiter, result |-> tl.result, checks |-> <<u, tl>>]
        ELSE [limiter |-> u.limiter, result |-> u.result, checks |-> <<u>>]

\* History of the limiter.check calls: per key the creation time of the
\* bucket now stored under it and the number of consume calls it has served.
HistAfter(hist, checks, L, t) ==
    LET step(h, c) ==
            [k \in DOMAIN h \cup {c.key} |->
                IF k = c.key
                    THEN IF c.created THEN [created_at |-> t, calls |-> 1]
                         ELSE [h[k] EXCEPT !.calls = @ + 1]
                    ELSE h[k]]
        h1 == step(hist, checks[1])
        h2 == IF Len(checks) = 2 THEN step(h1, checks[2]) ELSE h1
    IN  [k \in DOMAIN L.buckets |-> h2[k]]

NoRl == [called |-> FALSE]

RateLimitInit ==
    /\ now = 0
    /\ limiter = [buckets |-> << >>, last_cleanup |-> 0]
    /\ rl = NoRl
    /\ bucketHist = << >>
    /\ nchecks = 0
    /\ nticks = 0

\* One call check_rate_limit(user_id, tool_name, config).
CheckRateLimit ==
    \E user_id \in RLUsers, tool_name \in RLTools \cup {None}, config \in ConfigArgs :
        LET r == check_rate_limit(limiter, user_id, tool_name, config, now)
        IN  /\ nchecks < MaxChecks
            /\ nchecks' = nchecks + 1
            /\ limiter' = r.limiter
            /\ rl' = [called |-> TRUE, user_id |-> user_id, tool_name |-> tool_name,
                      config |-> config, before |-> limiter, at |-> now,
                      result |-> r.result, checks |-> r.checks]
            /\ bucketHist' = HistAfter(bucketHist, r.checks, r.limiter, now)
            /\ UNCHANGED <<now, nticks>>

\* time passes, by one of the steps given
AdvanceClockBy(steps) ==
    \E d \in steps :
        /\ nticks < MaxTicks
        /\ nticks' = nticks + 1
        /\ now' = now + d
        /\ UNCHANGED <<limiter, rl, bucketHist, nchecks>>
AdvanceClock == AdvanceClockBy(ClockSteps)

\* direct calls of TokenBucket.consume(tokens) on a bucket
ConsumeCounts == {1, 2, 3}
BucketConfigs == CustomConfigs \cup {DefaultToolConfig}
BucketClockSteps == {1, 2, 601}

BucketInit ==
    /\ now = 0
    /\ \E config \in BucketConfigs :
          limiter = [buckets |-> [k \in {UserKey("u1")} |-> NewBucket(config, 0)],
                     last_cleanup |-> 0]
    /\ rl = NoRl
    /\ bucketHist = << >>
    /\ nchecks = 0
    /\ nticks = 0

TokenBucketConsume ==
    \E k \in DOMAIN limiter.buckets, n \in ConsumeCounts :
        \E c \in {Consume(limiter.buckets[k], n, now)} :
            /\ nchecks < MaxChecks
            /\ nchecks' = nchecks + 1
            /\ limiter' = [limiter EXCEPT !.buckets[k] = c.bucket]
            /\ rl' = [called |-> FALSE, key |-> k, tokens |-> n, result |-> c.result]
            /\ UNCHANGED <<now, nticks, bucketHist>>

(***************************************************************************)
(* ------------------- REGISTRY, PROXY, AUDIT, GATEWAY ------------------- *)
(* src/src/registry/service.py, src/src/registry/repository.py,            *)
(* src/src/gateway/proxy.py, src/src/audit/logger.py,                      *)
(* src/src/gateway/service.py                                              *)
(*                                                                         *)
(* The tables audit_logs and the backend's inbox are bags of rows: the     *)
(* row id and timestamp columns and duration_ms are left out.              *)
(***************************************************************************)

VARIABLES
    shared_secret,  \* get_settings().TOOL_GATEWAY_SHARED_SECRET (memoized)
    tools_db,       \* table tools: name -> row
    tool_cache,     \* _tool_cache["all_active_tools"], or NoCache
    scope_cache,    \* the cached view tools_by_scope: scope -> cache or NoCache
    audit_logs,     \* table audit_logs: a bag of rows
    posts,          \* the HTTP POSTs received by backends: a bag
    uuid,           \* number of uuid4() values drawn so far
    last,           \* the last request served and what became of it
    nreqs           \* number of requests served so far

gwVars ==
    <<shared_secret, tools_db, tool_cache, scope_cache, audit_logs, posts, uuid, last, nreqs>>

DefaultMaxPayloadBytes == 1048576   \* DEFAULT_MAX_PAYLOAD_BYTES = 1024 * 1024
CacheTTL == 300                     \* TTLCache(maxsize=1000, ttl=300)
MaxRequests == 1                    \* requests explored

\* ToolScope values (the scope column is not declared in registry/models.py)
ToolScopes_any == {"calculator", "git", "docs", "invalid"}
ToolScopes == {"calculator", "git", "docs"}

\* updated_at of a row no UPDATE statement has touched (NULL)
NullTime == -1

ToolRow(id, name, scope, required_roles, backend_url, is_active) ==
    [id |-> id, name |-> name, scope |-> scope, required_roles |-> required_roles,
     backend_url |-> backend_url, is_active |-> is_active, usage_count |-> 0,
     updated_at |-> NullTime]

\* the registry as seeded: two tools, both active
SeededTools ==
    [n \in {"exact_calculate", "document_generate"} |->
        IF n = "exact_calculate"
           THEN ToolRow(1, n, "calculator", <<>>, "http://calculator:8000/mcp", TRUE)
           ELSE ToolRow(2, n, "docs", <<"admin">>, "http://document_generator:8000/mcp", TRUE)]

\* every tool name of the model, in the order of ORDER BY name
NameOrder ==
    <<"document_generate", "exact_calculate", "find_tools", "git_readonly", "unknown_tool">>

\* get_all_active_tools(db): SELECT ... WHERE is_active ORDER BY name
get_all_active_tools(db) ==
    LET names == SelectSeq(NameOrder, LAMBDA n : n \in DOMAIN db /\ db[n].is_active)
    IN  [i \in DOMAIN names |-> db[names[i]]]

NoCache == [none |-> TRUE]

\* no scope has a cached view (after clear_tool_cache)
NoScopeCache == [s \in ToolScopes |-> NoCache]

\* get_active_tools_by_scope(db, scope):
\* SELECT ... WHERE is_active AND scope = :scope ORDER BY name
get_active_tools_by_scope(db, scope) ==
    SelectSeq(get_all_active_tools(db), LAMBDA tool : tool.scope = scope)

\* cache_key in _tool_cache
CacheHit_inclusive(cache, t) == cache # NoCache /\ t <= cache.stored_at + CacheTTL
CacheHit(cache, t) == cache # NoCache /\ t < cache.stored_at + CacheTTL

\* get_all_tools_cached(db): the tools returned and the cache afterwards;
\* db_ok = FALSE is a failing query.
get_all_tools_cached(cache, db, t, db_ok) ==
    IF CacheHit(cache, t)
       THEN [raised |-> FALSE, tools |-> cache.tools, cache |-> cache, queried |-> FALSE]
    ELSE IF ~db_ok
       THEN [raised |-> TRUE, tools |-> <<>>, cache |-> cache, queried |-> TRUE]
    ELSE [raised |-> FALSE, tools |-> get_all_active_tools(db),
          cache |-> [tools |-> get_all_active_tools(db), stored_at |-> t],
          queried |-> TRUE]

\* get_tools_by_scope_cached(db, scope): the cached view tools_by_scope, kept
\* for the TTL like all_active_tools and emptied by clear_tool_cache
get_tools_by_scope_cached(cache, db, scope, t, db_ok) ==
    IF CacheHit(cache[scope], t)
       THEN [raised |-> FALSE, tools |-> cache[scope].tools, cache |-> cache]
    ELSE IF ~db_ok
       THEN [raised |-> TRUE, tools |-> <<>>, cache |-> cache]
    ELSE [raised |-> FALSE, tools |-> get_active_tools_by_scope(db, scope),
          cache |-> [cache EXCEPT ![scope] =
                        [tools |-> get_active_tools_by_scope(db, scope),
                         stored_at |-> t]]]

NoTool == [none |-> TRUE]

\* next((t for t in all_tools if t.name == name), None)
FindTool(all_tools, name) ==
    LET hits == SelectSeq(all_tools, LAMBDA t : t.name = name)
    IN  IF hits = <<>> THEN NoTool ELSE hits[1]

\* str(uuid.uuid4()): the n-th value drawn
Uuid4(n) == "uuid-" \o ToString(n)

\* ---------------------------- users ------------------------------------
\* AuthenticatedUser as built by get_current_user
AuthenticatedUser(claims, pol) ==
    [claims |-> claims, allowed_tools |-> get_allowed_tools_for_user(claims, pol)]

GatewayPolicy ==
    [roles |-> [r \in {"admin", "developer", "viewer"} |->
                   IF r = "viewer" THEN <<"exact_calculate">> ELSE <<"*">>],
     workspaces |-> << >>,
     tools |-> << >>]

GatewayClaims ==
    { [user_id |-> "admin1", roles |-> <<"admin">>, workspace |-> None],
      [user_id |-> "dev1", roles |-> <<"developer">>, workspace |-> None],
      [user_id |-> "viewer1", roles |-> <<"viewer">>, workspace |-> None] }

GatewayUsers == { AuthenticatedUser(c, GatewayPolicy) : c \in GatewayClaims }

\* AuthenticatedUser.can_use_tool
can_use_tool(user, tool_name) == tool_name \in user.allowed_tools

\* --------------------------- payload -----------------------------------
\* Tool arguments: a dict with no key or with the one key "data" whose
\* value is a string, given as its sequence of characters.
EmptyArgs == [k \in {} |-> <<>>]
DataArgs(chars) == [k \in {"data"} |-> chars]
ArgumentSet == {DataArgs(<<"x">>), DataArgs(<<"x", "e_acute">>)}

\* bytes of one character in json.dumps(...).encode("utf-8"): json.dumps
\* escapes a non-ASCII character as \uXXXX
EscapedBytes(ch) == IF ch = "e_acute" THEN 6 ELSE 1

RECURSIVE SumEscaped(_)
SumEscaped(chars) ==
    IF chars = <<>> THEN 0 ELSE EscapedBytes(Head(chars)) + SumEscaped(Tail(chars))

\* len(json.dumps(arguments).encode("utf-8")): {} is 2 bytes and
\* {"data": "<s>"} is 12 bytes plus the escaped s
PayloadSize(arguments) ==
    IF DOMAIN arguments = {} THEN 2 ELSE 12 + SumEscaped(arguments["data"])

\* validate_payload_size raises PayloadTooLargeError
PayloadTooLarge(arguments, max_bytes) == PayloadSize(arguments) > max_bytes

GateMaxPayloads == {13}

\* ---------------------------- proxy ------------------------------------
\* what the network and the backend do with a POST.  A 2xx body parsed by
\* MCPResponse(**data) carries a result ("result"), an error ("rpc_error"),
\* neither ("null_result") or both ("result_and_error")
PostOutcomes == {"result", "rpc_error", "null_result", "result_and_error",
                 "http_error", "timeout", "connect_error", "request_error",
                 "bad_body"}

NoResponse == [none |-> TRUE]

\* if not shared_secret
SecretMissing_never(secret) == FALSE
SecretMissing(secret) == secret = ""

\* What the backend can answer over HTTP besides PostOutcomes: more statuses
\* on both sides of the >= 400 test, with bodies around the truncation length.
ProxyOutcomes == PostOutcomes \cup {"http_400", "http_404", "http_399"}

\* detail=response.text[:200]
DetailChars == 200

Text(n, c) == [i \in 1..n |-> c]

\* response.status_code, when the POST produced a response
response_status_code(post) ==
    CASE post = "http_error" -> 500
      [] post = "http_400" -> 400
      [] post = "http_404" -> 404
      [] post = "http_399" -> 399
      [] OTHER -> 200

\* response.text of the error responses, as a sequence of characters:
\* 201, 3 and exactly 200 characters
response_text(post) ==
    CASE post = "http_error" -> Text(DetailChars, "x") \o <<"y">>
      [] post = "http_400" -> <<"b", "a", "d">>
      [] post = "http_404" -> Text(DetailChars - 1, "x") \o <<"z">>
      [] OTHER -> <<>>

\* text[:n]
text_prefix_whole(text, n) == text
text_prefix(text, n) == SubSeq(text, 1, Min(Len(text), n))

\* response.json() followed by MCPResponse(**data); NoResponse when the
\* body is not a JSON-RPC response
response_json(post, mcp_request) ==
    CASE post \in {"result", "http_399"} ->
             [id |-> mcp_request.id, result |-> "ok", error |-> None]
      [] post = "rpc_error" ->
             [id |-> mcp_request.id, result |-> None, error |-> "tool failed"]
      [] post = "null_result" ->
             [id |-> mcp_request.id, result |-> None, error |-> None]
      [] post = "result_and_error" ->
             [id |-> mcp_request.id, result |-> "ok", error |-> "tool failed"]
      [] OTHER -> NoResponse

\* detail of the BackendError raised without a POST, kept as one unit
SecretNotConfigured == <<"Gateway shared secret not configured">>

\* forward_to_backend: whether client.post was called and with what, and
\* the outcome: "returned" with the MCPResponse, or the exception raised
\* (a BackendError with its status_code and detail).
\* post is what the network and the backend do with the POST.
forward_to_backend(secret, backend_url, mcp_request, request_id, user_id, post, n_uuid) ==
    LET rid == IF request_id = None THEN Uuid4(n_uuid + 1) ELSE request_id
        n_after == IF request_id = None THEN n_uuid + 1 ELSE n_uuid
        headers ==
            [h \in {"Content-Type", "X-Request-ID", "X-Gateway-Auth"}
                    \cup (IF user_id \in {None, ""} THEN {} ELSE {"X-User-ID"}) |->
                CASE h = "Content-Type" -> "application/json"
                  [] h = "X-Request-ID" -> rid
                  [] h = "X-Gateway-Auth" -> secret
                  [] h = "X-User-ID" -> user_id]
        sent == [url |-> backend_url, json |-> mcp_request, headers |-> headers]
        raised(exc) == [posted |-> TRUE, sent |-> sent, uuid |-> n_after, outcome |-> exc,
                        response |-> NoResponse, status_code |-> 0, detail |-> <<>>]
    IN  IF SecretMissing(secret)
        THEN [posted |-> FALSE, sent |-> NoResponse, outcome |-> "BackendError",
              response |-> NoResponse, uuid |-> n_after,
              status_code |-> 500, detail |-> SecretNotConfigured]
        ELSE IF post = "timeout" THEN raised("BackendTimeoutError")
        ELSE IF post \in {"connect_error", "request_error"}
        THEN raised("BackendUnavailableError")
        ELSE IF response_status_code(post) >= 400
        THEN [posted |-> TRUE, sent |-> sent, uuid |-> n_after, outcome |-> "BackendError",
              response |-> NoResponse, status_code |-> response_status_code(post),
              detail |-> text_prefix(response_text(post), DetailChars)]
        ELSE IF response_json(post, mcp_request) = NoResponse THEN raised("ValueError")
        ELSE [posted |-> TRUE, sent |-> sent, uuid |-> n_after, outcome |-> "returned",
              response |-> response_json(post, mcp_request),
              status_code |-> 0, detail |-> <<>>]

\* forward_tool_call: wraps the call in an MCPRequest
forward_tool_call(secret, backend_url, tool_name, arguments, request_id, user_id, post, n_uuid) ==
    LET rid == IF request_id = None THEN Uuid4(n_uuid + 1) ELSE request_id
        n_after == IF request_id = None THEN n_uuid + 1 ELSE n_uuid
    IN  forward_to_backend(secret, backend_url,
                           [jsonrpc |-> "2.0", method |-> "tools/call",
                            params |-> [name |-> tool_name, arguments |-> arguments],
                            id |-> rid],
                           rid, user_id, post, n_after)

\* ---------------------------- audit ------------------------------------
\* AuditContext.__init__
AuditContext(request_id, user_id, tool_name, endpoint_path) ==
    [request_id |-> request_id, user_id |-> user_id, tool_name |-> tool_name,
     endpoint_path |-> endpoint_path, status |-> "success", error_code |-> None]

mark_error(ctx, error_code) == [ctx EXCEPT !.status = "error", !.error_code = error_code]
mark_timeout_as_error(ctx) == [ctx EXCEPT !.status = "error", !.error_code = "BACKEND_TIMEOUT"]
mark_timeout(ctx) == [ctx EXCEPT !.status = "timeout", !.error_code = "BACKEND_TIMEOUT"]

\* log_tool_invocation / create_audit_log: the table afterwards; audit_ok =
\* FALSE is a failing INSERT, which leaves the table as it was and raises
log_tool_invocation(logs, ctx, audit_ok) ==
    IF audit_ok THEN logs (+) SetToBag({ctx}) ELSE logs

\* audit_tool_invocation: `try: yield context  finally: await
\* log_tool_invocation(db, context)`.  body_outcome is how the body of the
\* scope ended; an exception raised by the finally clause replaces it.
audit_tool_invocation_swallowing(logs, ctx, body_outcome, audit_ok) ==
    [logs |-> log_tool_invocation(logs, ctx, audit_ok), outcome |-> "returned"]
audit_tool_invocation(logs, ctx, body_outcome, audit_ok) ==
    [logs |-> log_tool_invocation(logs, ctx, audit_ok),
     outcome |-> IF audit_ok THEN body_outcome ELSE "SQLAlchemyError"]

\* number of rows of the table with this request_id
RowsWithRequestId(logs, request_id) ==
    LET rows == {r \in BagToSet(logs) : r.request_id = request_id}
        RECURSIVE Sum(_)
        Sum(S) == IF S = {} THEN 0
                  ELSE LET r == CHOOSE x \in S : TRUE
                       IN  CopiesIn(r, logs) + Sum(S \ {r})
    IN  Sum(rows)

\* --------------------------- gateway -----------------------------------
\* request.request_id or generate_request_id()
Falsy(x) == x \in {None, ""}

\* gate 2 of invoke_tool fails: not can_use_tool and no wildcard
PermissionGateFails(user, tool_name) ==
    ~can_use_tool(user, tool_name) /\ "*" \notin user.allowed_tools

\* gate 4 of invoke_tool fails: required_roles set and none of them held
RoleGateFails_never(user, tool) == FALSE
RoleGateFails(user, tool) ==
    tool.required_roles # <<>> /\ ~AnyRoleHeld(tool.required_roles, user.claims.roles)

\* The state invoke_tool reads and writes
GatewayState ==
    [shared_secret |-> shared_secret, tools_db |-> tools_db, tool_cache |-> tool_cache,
     audit_logs |-> audit_logs, posts |-> posts, uuid |-> uuid, now |-> now]

\* The body of invoke_tool; endpoint_path is what the audit scope is opened
\* with.  env is what the environment does: db_ok (the registry query
\* succeeds), post (the fate of the POST), audit_ok (the audit INSERT
\* succeeds).  The result has the outcome ("returned" or the exception that
\* leaves the function) and the state afterwards.
InvokeToolBody(S, user, request, max_payload_bytes, env, endpoint_path) ==
    LET generated == Falsy(request.request_id)
        request_id == IF generated THEN Uuid4(S.uuid + 1) ELSE request.request_id
        ctx0 == AuditContext(request_id, user.claims.user_id, request.tool_name,
                             endpoint_path)
        lookup == get_all_tools_cached(S.tool_cache, S.tools_db, S.now, env.db_ok)
        tool == FindTool(lookup.tools, request.tool_name)
        fwd == forward_tool_call(S.shared_secret, tool.backend_url, request.tool_name,
                                 request.arguments, request_id, user.claims.user_id,
                                 env.post, S.uuid)
        denied(exc, cache) ==
            [outcome |-> exc, response |-> NoResponse, cache |-> cache,
             forwarded |-> FALSE, posted |-> FALSE, sent |-> NoResponse]
        body ==
            IF PayloadTooLarge(request.arguments, max_payload_bytes)
               THEN denied("PayloadTooLargeError", S.tool_cache)
            ELSE IF PermissionGateFails(user, request.tool_name)
               THEN denied("ToolNotAllowedError", S.tool_cache)
            ELSE IF lookup.raised
               THEN denied("SQLAlchemyError", lookup.cache)
            ELSE IF tool = NoTool
               THEN denied("ToolNotFoundError", lookup.cache)
            ELSE IF RoleGateFails(user, tool)
               THEN denied("ToolNotAllowedError", lookup.cache)
            ELSE [outcome |-> fwd.outcome, response |-> fwd.response,
                  cache |-> lookup.cache, forwarded |-> TRUE,
                  posted |-> fwd.posted, sent |-> fwd.sent]
        ctx ==
            CASE body.outcome = "BackendTimeoutError" -> mark_timeout(ctx0)
              [] body.outcome = "BackendUnavailableError" -> mark_error(ctx0, "BACKEND_UNAVAILABLE")
              [] body.outcome = "BackendError" -> mark_error(ctx0, "BACKEND_ERROR")
              [] body.outcome = "ToolNotFoundError" -> mark_error(ctx0, "TOOL_NOT_FOUND")
              [] body.outcome = "ToolNotAllowedError" -> mark_error(ctx0, "TOOL_NOT_ALLOWED")
              [] body.outcome = "PayloadTooLargeError" -> mark_error(ctx0, "PAYLOAD_TOO_LARGE")
              [] OTHER -> ctx0
        scope == audit_tool_invocation(S.audit_logs, ctx, body.outcome, env.audit_ok)
    IN  [outcome |-> scope.outcome,
         response |-> IF scope.outcome = "returned" THEN body.response ELSE NoResponse,
         body_outcome |-> body.outcome,
         request_id |-> request_id,
         forwarded |-> body.forwarded,
         posted |-> body.posted,
         sent |-> body.sent,
         audit |-> ctx,
         state |-> [S EXCEPT
                      !.tool_cache = body.cache,
                      !.audit_logs = scope.logs,
                      !.posts = IF body.posted THEN S.posts (+) SetToBag({body.sent})
                                ELSE S.posts,
                      !.uuid = IF generated THEN S.uuid + 1 ELSE S.uuid]]

\* invoke_tool(db, user, request, client, timeout, max_payload_bytes): the
\* audit scope is opened without endpoint_path, which defaults to "/unknown"
invoke_tool(S, user, request, max_payload_bytes, env) ==
    InvokeToolBody(S, user, request, max_payload_bytes, env, "/unknown")

\* invoke_tool as the router and the MCP transport call it, with the keyword
\* endpoint_path handed on to the audit scope
invoke_tool_endpoint_path(S, user, request, max_payload_bytes, env, endpoint_path) ==
    InvokeToolBody(S, user, request, max_payload_bytes, env, endpoint_path)

\* get_tools_for_user(db, user): the names of the tools listed
get_tools_for_user(S, user, db_ok) ==
    LET lookup == get_all_tools_cached(S.tool_cache, S.tools_db, S.now, db_ok)
        shown == SelectSeq(lookup.tools,
                     LAMBDA tool :
                        /\ "*" \in user.allowed_tools \/ tool.name \in user.allowed_tools
                        /\ ~(tool.required_roles # <<>>
                             /\ ~AnyRoleHeld(tool.required_roles, user.claims.roles)))
    IN  [outcome |-> IF lookup.raised THEN "SQLAlchemyError" ELSE "returned",
         tools |-> [i \in DOMAIN shown |-> shown[i].name],
         cache |-> lookup.cache]

\* --------------------------- registry sync -----------------------------
\* ToolConfig of config/tools.yaml (description, risk_level and
\* input_schema are left out)
ToolConfig(name, backend_url, required_roles, is_active) ==
    [name |-> name, backend_url |-> backend_url, required_roles |-> required_roles,
     is_active |-> is_active]

CalcConfig(active) == ToolConfig("exact_calculate", "http://calculator:8000/mcp", <<>>, active)
DocConfig(active) ==
    ToolConfig("document_generate", "http://document_generator:8000/mcp", <<"admin">>, active)
NewConfig == ToolConfig("git_readonly", "http://gateway:8000/tools/git", <<>>, TRUE)

\* the scope a catalog entry is created with
ConfigScope(tool) ==
    CASE tool.name = "document_generate" -> "docs"
      [] tool.name = "git_readonly" -> "git"
      [] OTHER -> "calculator"

\* create_tool(db, name, description, backend_url, scope, ...)
create_tool(db, name, backend_url, scope, required_roles, is_active) ==
    [n \in DOMAIN db \cup {name} |->
        IF n = name
           THEN ToolRow(Cardinality(DOMAIN db) + 1, name, scope, required_roles,
                        backend_url, is_active)
           ELSE db[n]]

CatalogSet ==
    { <<>>,
      <<CalcConfig(TRUE), DocConfig(TRUE)>>,
      <<CalcConfig(FALSE), DocConfig(TRUE)>>,
      <<CalcConfig(TRUE)>>,
      <<CalcConfig(FALSE), CalcConfig(TRUE)>>,
      <<DocConfig(FALSE), NewConfig>> }

\* deactivate_tools_not_in_list(db, active_names): one UPDATE over every row
\* WHERE name NOT IN active_names; the statement sets is_active, and
\* updated_at through the column's onupdate=func.now()
deactivate_tools_not_in_list(db, active_names, t) ==
    IF active_names = {} THEN db
    ELSE [n \in DOMAIN db |->
            IF n \in active_names THEN db[n]
            ELSE [db[n] EXCEPT !.is_active = FALSE, !.updated_at = t]]

\* an existing row brought to its catalog entry: UPDATE and commit only
\* when an attribute differs
sync_existing(row, tool, t) ==
    IF /\ row.backend_url = tool.backend_url
       /\ row.required_roles = tool.required_roles
       /\ row.is_active = tool.is_active
       THEN row
       ELSE [row EXCEPT !.backend_url = tool.backend_url,
                        !.required_roles = tool.required_roles,
                        !.is_active = tool.is_active,
                        !.updated_at = t]

\* the loop of sync_tools_from_config from entry i on: the table as
\* committed so far and the exception that ends the loop, if any.
RECURSIVE SyncLoop(_, _, _, _, _)
SyncLoop(db, tools, i, seen_names, t) ==
    IF i > Len(tools) THEN [db |-> db, raised |-> None, seen_names |-> seen_names]
    ELSE LET tool == tools[i]
         IN  IF tool.name \in seen_names
                THEN [db |-> db, raised |-> "ValueError", seen_names |-> seen_names]
             ELSE IF tool.name \notin DOMAIN db
                THEN SyncLoop(create_tool(db, tool.name, tool.backend_url,
                                          ConfigScope(tool), tool.required_roles,
                                          tool.is_active),
                              tools, i + 1, seen_names \cup {tool.name}, t)
             ELSE SyncLoop([db EXCEPT ![tool.name] = sync_existing(@, tool, t)],
                           tools, i + 1, seen_names \cup {tool.name}, t)

\* sync_tools_from_config(db): the table and the cache afterwards
sync_tools_from_config(db, cache, tools, t) ==
    IF tools = <<>> THEN [db |-> db, cache |-> NoCache, raised |-> None, cleared |-> TRUE]
    ELSE LET loop == SyncLoop(db, tools, 1, {}, t)
         IN  IF loop.raised # None
                THEN [db |-> loop.db, cache |-> cache, raised |-> loop.raised,
                      cleared |-> FALSE]
                ELSE [db |-> deactivate_tools_not_in_list(loop.db, loop.seen_names, t),
                      cache |-> NoCache, raised |-> None, cleared |-> TRUE]

\* ---------------------------- actions ----------------------------------
ToolNames == {"exact_calculate", "document_generate", "unknown_tool"}
RequestIds == {None, "req-1"}
Secrets == {"", "s3cret"}
Environments == [db_ok : BOOLEAN, post : PostOutcomes, audit_ok : BOOLEAN]

NoLast == [op |-> "none"]

GatewayInit ==
    /\ shared_secret \in Secrets
    /\ tools_db = SeededTools
    /\ tool_cache = NoCache
    /\ scope_cache = NoScopeCache
    /\ audit_logs = EmptyBag
    /\ posts = EmptyBag
    /\ uuid = 0
    /\ last = NoLast
    /\ nreqs = 0

GatewayIdle ==
    /\ shared_secret = ""
    /\ tools_db = SeededTools
    /\ tool_cache = NoCache
    /\ scope_cache = NoScopeCache
    /\ audit_logs = EmptyBag
    /\ posts = EmptyBag
    /\ uuid = 0
    /\ last = NoLast
    /\ nreqs = 0

\* the users get_current_user builds under the loaded policy
CurrentUsers == { AuthenticatedUser(c, policy) : c \in GatewayClaims }

\* a direct call of gateway.service.invoke_tool with inputs from these sets
InvokeToolWith(users, names, argsets, rids, maxes, envs) ==
    /\ nreqs < MaxRequests
    /\ \E user \in users, tool_name \in names, arguments \in argsets,
          rid \in rids, max_payload_bytes \in maxes, env \in envs :
          LET request == [tool_name |-> tool_name, arguments |-> arguments,
                          request_id |-> rid]
              lookup == get_all_tools_cached(tool_cache, tools_db, now, env.db_ok)
              r == invoke_tool(GatewayState, user, request, max_payload_bytes, env)
          IN  /\ tool_cache' = r.state.tool_cache
              /\ audit_logs' = r.state.audit_logs
              /\ posts' = r.state.posts
              /\ uuid' = r.state.uuid
              /\ last' = [op |-> "invoke_tool", user |-> user, request |-> request,
                          max_payload_bytes |-> max_payload_bytes,
                          request_id |-> r.request_id, outcome |-> r.outcome,
                          forwarded |-> r.forwarded, posted |-> r.posted,
                          sent |-> r.sent, env |-> env,
                          body_outcome |-> r.body_outcome, audit |-> r.audit,
                          lookup_raised |-> lookup.raised,
                          snapshot |-> lookup.tools,
                          rows_before |-> RowsWithRequestId(audit_logs, r.request_id)]
    /\ nreqs' = nreqs + 1
    /\ UNCHANGED <<shared_secret, tools_db, scope_cache>>

\* a direct call of registry.service.get_all_tools_cached
GetAllToolsCached ==
    /\ nreqs < MaxRequests + 2
    /\ \E db_ok \in BOOLEAN :
          \E r \in {get_all_tools_cached(tool_cache, tools_db, now, db_ok)} :
              /\ tool_cache' = r.cache
              /\ last' = [op |-> "get_all_tools_cached", raised |-> r.raised,
                          tools |-> r.tools, queried |-> r.queried, db_ok |-> db_ok]
    /\ nreqs' = nreqs + 1
    /\ UNCHANGED <<shared_secret, tools_db, scope_cache, audit_logs, posts, uuid>>

\* clock steps on both sides of the cache's time to live
CacheClockSteps == {1, CacheTTL - 1, CacheTTL}

\* a direct call of registry.service.get_tools_for_user
GetToolsForUser ==
    /\ \E user \in CurrentUsers :
          LET r == get_tools_for_user(GatewayState, user, TRUE)
          IN  /\ tool_cache' = r.cache
              /\ last' = [op |-> "get_tools_for_user", user_id |-> user.claims.user_id,
                          outcome |-> r.outcome, tools |-> r.tools]
    /\ UNCHANGED <<shared_secret, tools_db, scope_cache, audit_logs, posts, uuid, nreqs>>

\* a call of registry.service.sync_tools_from_config against one of the
\* catalogs given; clear_tool_cache empties every cached view
SyncToolsFrom(catalogs) ==
    /\ \E tools \in catalogs :
          \E r \in {sync_tools_from_config(tools_db, tool_cache, tools, now)} :
              /\ tools_db' = r.db
              /\ tool_cache' = r.cache
              /\ scope_cache' = IF r.cleared THEN NoScopeCache ELSE scope_cache
              /\ last' = [op |-> "sync_tools_from_config", catalog |-> tools,
                          outcome |-> IF r.raised = None THEN "returned" ELSE r.raised]
    /\ UNCHANGED <<shared_secret, audit_logs, posts, uuid, nreqs>>
SyncTools == SyncToolsFrom(CatalogSet)

\* catalogs that list nothing, change the active tools, keep them, or fail
\* on a duplicate
CacheCatalogSet ==
    { <<>>,
      <<CalcConfig(TRUE), DocConfig(TRUE)>>,
      <<CalcConfig(FALSE), DocConfig(TRUE)>>,
      <<CalcConfig(FALSE), CalcConfig(TRUE)>> }
SyncCachedTools == SyncToolsFrom(CacheCatalogSet)

\* a direct call of gateway.proxy.forward_tool_call
BackendUrls == {"http://calculator:8000/mcp", "http://document_generator:8000/mcp"}
MaxForwards == 2
ForwardToolCall ==
    /\ nreqs < MaxForwards
    /\ \E backend_url \in BackendUrls, rid \in RequestIds, user_id \in {None, "admin1"},
          post \in ProxyOutcomes :
          LET r == forward_tool_call(shared_secret, backend_url, "exact_calculate",
                                     DataArgs(<<"x">>), rid, user_id, post, uuid)
          IN  /\ posts' = IF r.posted THEN posts (+) SetToBag({r.sent}) ELSE posts
              /\ uuid' = r.uuid
              /\ last' = [op |-> "forward_tool_call", outcome |-> r.outcome,
                          posted |-> r.posted, sent |-> r.sent, response |-> r.response,
                          post |-> post, status_code |-> r.status_code,
                          detail |-> r.detail]
    /\ nreqs' = nreqs + 1
    /\ UNCHANGED <<shared_secret, tools_db, tool_cache, scope_cache, audit_logs>>

\* ------------------------ MCP transport --------------------------------
META_TOOL_NAMES_none == {}
META_TOOL_NAMES == {"find_tools", "call_tool"}

\* log_denied_tool_invocation: one row with a fresh request id
log_denied_tool_invocation(S, user_id, tool_name, endpoint_path, error_code, audit_ok) ==
    LET ctx == mark_error(AuditContext(Uuid4(S.uuid + 1), user_id, tool_name,
                                       endpoint_path),
                          error_code)
    IN  [raised |-> ~audit_ok,
         request_id |-> ctx.request_id,
         state |-> [S EXCEPT !.uuid = S.uuid + 1,
                             !.audit_logs = log_tool_invocation(S.audit_logs, ctx, audit_ok)]]

\* if tool.scope.value != scope
ScopeMismatch_never(tool, scope) == FALSE
ScopeMismatch(tool, scope) == tool.scope # scope

\* increment_tool_usage(db, tool_id): one UPDATE of the row with that id,
\* usage_count + 1 (last_used_at is left out)
increment_tool_usage(db, tool_id, t) ==
    [n \in DOMAIN db |->
        IF db[n].id = tool_id
           THEN [db[n] EXCEPT !.usage_count = @ + 1, !.updated_at = t]
           ELSE db[n]]

\* handle_tools_call after invoke_tool has returned or raised (inv).  A
\* response without error reads response.tool_id, which MCPResponse does
\* not have: the AttributeError is caught by `except Exception`.
tools_call_invoked(inv) ==
    LET returned == inv.outcome = "returned"
        no_error == returned /\ Falsy(inv.response.error)
        \* response.tool_id on a model without that field
        attribute_error == no_error /\ "tool_id" \notin DOMAIN inv.response
        counted == no_error /\ ~attribute_error /\ ~Falsy(inv.response.tool_id)
    IN  [outcome |-> IF inv.outcome = "ToolNotAllowedError"
                        THEN "ToolNotAllowedError" ELSE "returned",
         isError |-> ~(no_error /\ ~attribute_error),
         text |-> CASE inv.outcome = "ToolNotAllowedError" -> None
                    [] returned /\ ~no_error -> "Error: message"
                    [] attribute_error -> "Exception: AttributeError"
                    [] returned -> "result"
                    [] OTHER -> "Exception: " \o inv.outcome,
         state |-> IF counted
                   THEN [inv.state EXCEPT
                            !.tools_db = increment_tool_usage(@, inv.response.tool_id,
                                                             inv.state.now)]
                   ELSE inv.state,
         forwarded |-> inv.forwarded,
         posted |-> inv.posted,
         request_id |-> inv.request_id]

\* handle_tools_call(db, user, client, scope, name, arguments, endpoint_path):
\* "returned" with an MCPToolCallResult, or the exception raised
handle_tools_call(S, user, scope, name, arguments, endpoint_path, env) ==
    LET lookup == get_all_tools_cached(S.tool_cache, S.tools_db, S.now, env.db_ok)
        S1 == [S EXCEPT !.tool_cache = lookup.cache]
        tool == FindTool(lookup.tools, name)
        denied(code) ==
            log_denied_tool_invocation(S1, user.claims.user_id, name, endpoint_path,
                                       code, env.audit_ok)
        inv == invoke_tool_endpoint_path(
                   S1, user,
                   [tool_name |-> name, arguments |-> arguments, request_id |-> None],
                   DefaultMaxPayloadBytes, env, endpoint_path)
        nothing(outcome, text, d) ==
            [outcome |-> outcome, isError |-> TRUE, text |-> text, state |-> d.state,
             forwarded |-> FALSE, posted |-> FALSE, request_id |-> d.request_id]
    IN  IF lookup.raised
           THEN [outcome |-> "SQLAlchemyError", isError |-> TRUE, text |-> None,
                 state |-> S, forwarded |-> FALSE, posted |-> FALSE,
                 request_id |-> None]
        ELSE IF tool = NoTool
           THEN LET d == denied("TOOL_NOT_FOUND")
                IN  IF d.raised THEN nothing("SQLAlchemyError", None, d)
                    ELSE nothing("returned", "Error: Tool not found", d)
        ELSE IF ScopeMismatch(tool, scope)
           THEN LET d == denied("TOOL_NOT_IN_SCOPE")
                IN  IF d.raised THEN nothing("SQLAlchemyError", None, d)
                    ELSE nothing("ToolNotAllowedError", None, d)
        ELSE tools_call_invoked(inv)

\* ------------------------- HTTP surface --------------------------------
\* the exception handlers of main.py; an exception without a handler is
\* answered 500
HttpStatusOf(outcome) ==
    CASE outcome = "returned" -> 200
      [] outcome = "ToolNotFoundError" -> 404
      [] outcome = "ToolNotAllowedError" -> 403
      [] outcome = "BackendTimeoutError" -> 504
      [] outcome = "BackendUnavailableError" -> 502
      [] outcome = "BackendError" -> 502
      [] outcome = "PayloadTooLargeError" -> 413
      [] outcome = "RateLimitExceededError" -> 429
      [] OTHER -> 500

\* rate_limit_handler: the response built for a RateLimitExceededError whose
\* retry_after is the fraction <<num, den>> of a second;
\* int(exc.retry_after) truncates
rate_limit_handler(exc) ==
    [status_code |-> 429,
     headers |-> [h \in {"Retry-After"} |->
                     ToString((exc.retry_after[1] \div exc.retry_after[2]) + 1)]]

\* retry_after values handed to the handler: 0.1 s .. MaxRetryTenths / 10 s
MaxRetryTenths == 120
RetryAfterValues == { <<n, 10>> : n \in 1..MaxRetryTenths }

\* a RateLimitExceededError reaches the exception handler
RateLimitHandler ==
    /\ \E retry_after \in RetryAfterValues, limit \in {ToolRequestsPerMinute} :
          \E exc \in {[limit |-> limit, retry_after |-> retry_after]} :
              last' = [op |-> "rate_limit_handler", exc |-> exc,
                       response |-> rate_limit_handler(exc)]
    /\ UNCHANGED <<shared_secret, tools_db, tool_cache, scope_cache, audit_logs, posts,
                   uuid, nreqs>>

FreshLimiter == [buckets |-> << >>, last_cleanup |-> 0]

\* the limiter once viewer1 has called exact_calculate ToolBurstSize times
\* at time 0: the tool bucket is empty
DrainedLimiter ==
    [buckets |->
        [k \in {UserKey("viewer1"), ToolKey("viewer1", "exact_calculate")} |->
            IF k = UserKey("viewer1")
               THEN [NewBucket(DefaultConfig, 0) EXCEPT
                        !.tokens = (DefaultBurstSize - ToolBurstSize) * TokenUnit]
               ELSE [NewBucket(DefaultToolConfig, 0) EXCEPT !.tokens = 0]],
     last_cleanup |-> 0]

EndpointEnvironments ==
    [db_ok : {TRUE}, post : {"result", "timeout"}, audit_ok : BOOLEAN]
HeaderRequestIds == {None, "req-h"}

\* POST /mcp/invoke: invoke_tool_endpoint
InvokeEndpoint ==
    /\ nreqs < MaxRequests
    /\ \E user \in CurrentUsers, tool_name \in ToolNames, rid \in RequestIds,
          x_request_id \in HeaderRequestIds, env \in EndpointEnvironments :
          LET generated == Falsy(x_request_id) /\ Falsy(rid)
              request_id == IF ~Falsy(x_request_id) THEN x_request_id
                            ELSE IF generated THEN Uuid4(uuid + 1) ELSE rid
              request == [tool_name |-> tool_name, arguments |-> DataArgs(<<"x">>),
                          request_id |-> request_id]
              rate == check_rate_limit(limiter, user.claims.user_id, tool_name, NoConfig, now)
              S == [GatewayState EXCEPT !.uuid = IF generated THEN uuid + 1 ELSE uuid]
              r == invoke_tool_endpoint_path(S, user, request, DefaultMaxPayloadBytes, env,
                                             "/mcp/invoke")
              outcome == IF rate.result.allowed THEN r.outcome ELSE "RateLimitExceededError"
              after == IF rate.result.allowed THEN r.state ELSE S
          IN  /\ limiter' = rate.limiter
              /\ tool_cache' = after.tool_cache
              /\ audit_logs' = after.audit_logs
              /\ posts' = after.posts
              /\ uuid' = after.uuid
              /\ last' = [op |-> "invoke_endpoint", user_id |-> user.claims.user_id,
                          tool_name |-> tool_name, request_id |-> request_id,
                          outcome |-> outcome, http_status |-> HttpStatusOf(outcome),
                          rate_allowed |-> rate.result.allowed,
                          forwarded |-> rate.result.allowed /\ r.forwarded,
                          posted |-> rate.result.allowed /\ r.posted,
                          env |-> env,
                          url_path |-> "/mcp/invoke",
                          audit_before |-> audit_logs,
                          rows_before |-> RowsWithRequestId(audit_logs, request_id)]
    /\ nreqs' = nreqs + 1
    /\ UNCHANGED <<shared_secret, tools_db, scope_cache>>
    /\ UNCHANGED <<now, rl, bucketHist, nchecks, nticks>>

\* POST /{scope}/sse with method tools/call: the status, the JSON-RPC error
\* code (0 when the envelope carries a result) and the state afterwards
UrlScopes == {"calculator", "docs", "invalid"}
CalledNames == ToolNames \cup {"find_tools", "call_tool"}

\* the envelope for a call that reached handle_tools_call
sse_dispatched(call, limiter_after) ==
    [http_status |-> 200,
     code |-> CASE call.outcome = "returned" -> 0
                [] call.outcome = "ToolNotAllowedError" -> -32011
                [] OTHER -> -32603,
     state |-> call.state, limiter |-> limiter_after, dispatched |-> TRUE,
     forwarded |-> call.forwarded, posted |-> call.posted,
     isError |-> call.outcome = "returned" /\ call.isError,
     request_id |-> call.request_id]

sse_tools_call(S, L, user, scope, name, arguments, env) ==
    LET rate == check_rate_limit(L, user.claims.user_id, name, NoConfig, S.now)
        call == handle_tools_call(S, user, scope, name, arguments,
                                  "/" \o scope \o "/sse", env)
        early(status, code, limiter_after) ==
            [http_status |-> status, code |-> code, state |-> S,
             limiter |-> limiter_after, dispatched |-> FALSE, forwarded |-> FALSE,
             posted |-> FALSE, isError |-> FALSE, request_id |-> None]
    IN  IF scope \notin ToolScopes THEN early(404, -32010, L)
        ELSE IF name \in META_TOOL_NAMES THEN early(200, -32012, L)
        ELSE IF ~rate.result.allowed THEN early(429, 0, rate.limiter)
        ELSE sse_dispatched(call, rate.limiter)

ScopedToolsCallWith(users, scopes, names, envs) ==
    /\ nreqs < MaxRequests
    /\ \E user \in users, scope \in scopes, name \in names, env \in envs :
          \E r \in {sse_tools_call(GatewayState, limiter, user, scope, name,
                                   DataArgs(<<"x">>), env)},
             lookup \in {get_all_tools_cached(tool_cache, tools_db, now, env.db_ok)} :
              /\ limiter' = r.limiter
              /\ tools_db' = r.state.tools_db
              /\ tool_cache' = r.state.tool_cache
              /\ audit_logs' = r.state.audit_logs
              /\ posts' = r.state.posts
              /\ uuid' = r.state.uuid
              /\ last' = [op |-> "tools_call", user_id |-> user.claims.user_id,
                          scope |-> scope, tool_name |-> name,
                          http_status |-> r.http_status, code |-> r.code,
                          dispatched |-> r.dispatched, forwarded |-> r.forwarded,
                          posted |-> r.posted, isError |-> r.isError,
                          request_id |-> r.request_id, env |-> env,
                          snapshot |-> lookup.tools,
                          url_path |-> "/" \o scope \o "/sse",
                          audit_before |-> audit_logs,
                          posts_before |-> posts,
                          db_before |-> tools_db]
    /\ nreqs' = nreqs + 1
    /\ UNCHANGED <<shared_secret, scope_cache>>
    /\ UNCHANGED <<now, rl, bucketHist, nchecks, nticks>>

\* _is_tool_accessible(tool, user)
is_tool_accessible(tool, user) ==
    /\ "*" \in user.allowed_tools \/ tool.name \in user.allowed_tools
    /\ ~(tool.required_roles # <<>>
         /\ ~AnyRoleHeld(tool.required_roles, user.claims.roles))

\* handle_tools_list(db, user, scope): the names listed and the cached
\* views afterwards
handle_tools_list(cache, db, t, user, scope, db_ok) ==
    LET lookup == get_tools_by_scope_cached(cache, db, scope, t, db_ok)
        visible_tools ==
            SelectSeq(lookup.tools,
                      LAMBDA tool : /\ is_tool_accessible(tool, user)
                                    /\ tool.name \notin META_TOOL_NAMES)
    IN  [outcome |-> IF lookup.raised THEN "SQLAlchemyError" ELSE "returned",
         tools |-> [i \in DOMAIN visible_tools |-> visible_tools[i].name],
         cache |-> lookup.cache]

\* handle_initialize(params)
handle_initialize == [protocolVersion |-> "2024-11-05"]

\* POST /{scope}/sse for the JSON-RPC methods other than tools/call: scope
\* validation, then the dispatch on the method.  handler names the handler
\* entered, or "none".
SseMethods == {"initialize", "notifications/initialized", "tools/list", "resources/list"}
AckStatuses == {200, 202}   \* a notification is acknowledged without a body

sse_answer(status, code, handler, tools, cache) ==
    [http_status |-> status, code |-> code, handler |-> handler, tools |-> tools,
     scope_cache |-> cache]

sse_listed(listing, cache) ==
    IF listing.outcome = "returned"
       THEN sse_answer(200, 0, "handle_tools_list", listing.tools, listing.cache)
       ELSE sse_answer(200, -32603, "handle_tools_list", <<>>, cache)

sse_post(cache, db, t, user, scope, method, db_ok, ack_status) ==
    IF scope \notin ToolScopes
       THEN sse_answer(404, -32010, "none", <<>>, cache)
    ELSE CASE method = "initialize" ->
                 sse_answer(200, 0, "handle_initialize", <<>>, cache)
           [] method = "notifications/initialized" ->
                 sse_answer(ack_status, 0, "none", <<>>, cache)
           [] method = "tools/list" ->
                 sse_listed(handle_tools_list(cache, db, t, user, scope, db_ok), cache)
           [] OTHER -> sse_answer(200, -32601, "none", <<>>, cache)

\* a catalog may declare a tool under the name of a retired meta-tool
MetaConfig == ToolConfig("find_tools", "http://gateway:8000/tools/find", <<>>, TRUE)
ScopedCatalogSet ==
    { <<CalcConfig(TRUE), DocConfig(TRUE)>>,
      <<CalcConfig(FALSE), CalcConfig(TRUE)>>,
      <<CalcConfig(TRUE), MetaConfig>>,
      <<DocConfig(FALSE), NewConfig>> }
SyncScopedTools == SyncToolsFrom(ScopedCatalogSet)

\* one JSON-RPC message other than tools/call posted to /{scope}/sse
PostedScopes == {"calculator", "git", "docs", "invalid"}
ScopedPost ==
    /\ \E user \in CurrentUsers, scope \in PostedScopes, method \in SseMethods,
          db_ok \in BOOLEAN, ack_status \in AckStatuses :
          /\ method # "notifications/initialized" => ack_status = 202
          /\ method # "tools/list" => db_ok /\ user.claims.user_id = "admin1"
          /\ \E r \in {sse_post(scope_cache, tools_db, now, user, scope, method,
                                 db_ok, ack_status)} :
                 /\ scope_cache' = r.scope_cache
                 /\ last' = [op |-> "sse_post", user |-> user, scope |-> scope,
                             method |-> method, http_status |-> r.http_status,
                             code |-> r.code, handler |-> r.handler,
                             tools |-> r.tools]
    /\ UNCHANGED <<shared_secret, tools_db, tool_cache, audit_logs, posts, uuid, nreqs>>
    /\ UNCHANGED rlVars

\* a tools/call by the administrator between the other messages
ScopedEnvironments == [db_ok : {TRUE}, post : {"result"}, audit_ok : {TRUE}]
ScopedCall ==
    ScopedToolsCallWith({u \in CurrentUsers : u.claims.user_id = "admin1"},
                        {"calculator", "invalid"}, {"exact_calculate"},
                        ScopedEnvironments)

ScopedToolsCall ==
    ScopedToolsCallWith(CurrentUsers, UrlScopes, CalledNames, EndpointEnvironments)

\* invoke_tool over every outcome of the backend POST
FailureEnvironments == [db_ok : {TRUE}, post : PostOutcomes, audit_ok : BOOLEAN]
InvokeToolOverOutcomes ==
    InvokeToolWith(CurrentUsers, ToolNames, ArgumentSet, {None}, GateMaxPayloads,
                   FailureEnvironments)

\* invoke_tool over every gate: all users, tools, payloads and limits
GateEnvironments == [db_ok : {TRUE}, post : {"result", "timeout"}, audit_ok : BOOLEAN]
InvokeTool ==
    InvokeToolWith(CurrentUsers, ToolNames, ArgumentSet, {None}, GateMaxPayloads,
                   GateEnvironments)

(***************************************************************************)
(* ------------------------------- JOBS ---------------------------------- *)
(* src/src/jobs/repository.py, src/src/jobs/service.py                     *)
(*                                                                         *)
(* The jobs table is a function from job id to row.  A background task is  *)
(* a record with its position in process_job_task; every await of the task *)
(* is a step, so that the tasks of several jobs interleave.                *)
(***************************************************************************)
VARIABLES jobs, tasks

jobVars == <<jobs, tasks>>

MaxJobs == 1

JobStatus == {"pending", "running", "completed", "failed"}

\* str(job_id)
JobIdStr(job_id) == "job-" \o ToString(job_id)

\* create_job: the row is inserted in status PENDING
create_job(tbl, job_id, job_create, user_id) ==
    [j \in DOMAIN tbl \cup {job_id} |->
        IF j = job_id
        THEN [user_id |-> user_id, tool_name |-> job_create.tool_name,
              arguments |-> job_create.arguments,
              request_id |-> job_create.request_id,
              status |-> "pending", result |-> None, error |-> None,
              completed |-> FALSE]
        ELSE tbl[j]]

\* what the database does with one update_job_status: "ok", or an error
\* raised before the commit takes effect (the SELECT or the COMMIT fails),
\* or an error raised by the refresh after the commit has taken effect
UpdateOutcomes == {"ok", "raised_before_commit", "raised_after_commit"}

\* update_job_status: the new status is assigned whatever the current one is
update_job_status(tbl, job_id, status, result, error, db) ==
    IF db = "raised_before_commit"
       THEN [jobs |-> tbl, raised |-> "SQLAlchemyError"]
    ELSE IF job_id \notin DOMAIN tbl
       THEN [jobs |-> tbl, raised |-> "ValueError"]
    ELSE [jobs |-> [tbl EXCEPT ![job_id] =
                      [@ EXCEPT !.status = status,
                                !.result = IF result # None THEN result ELSE @,
                                !.error = IF error # None THEN error ELSE @,
                                !.completed = IF status \in {"completed", "failed"}
                                              THEN TRUE ELSE @]],
          raised |-> IF db = "raised_after_commit" THEN "SQLAlchemyError" ELSE None]

JobToolNames == {"exact_calculate", "document_generate"}
JobEnvironments ==
    [db_ok : {TRUE}, post : {"result", "rpc_error", "null_result", "timeout"},
     audit_ok : {TRUE}]

JobsInit ==
    /\ jobs = << >>
    /\ tasks = << >>

\* submit_job: create the row and schedule process_job_task
SubmitJob ==
    /\ Cardinality(DOMAIN jobs) < MaxJobs
    /\ \E user \in CurrentUsers, tool_name \in JobToolNames, rid \in RequestIds :
          LET job_id == Cardinality(DOMAIN jobs) + 1
              job_create == [tool_name |-> tool_name, arguments |-> EmptyArgs,
                             request_id |-> rid]
          IN  /\ jobs' = create_job(jobs, job_id, job_create, user.claims.user_id)
              /\ tasks' = [j \in DOMAIN tasks \cup {job_id} |->
                             IF j = job_id
                             THEN [pc |-> "mark_running", user |-> user,
                                   job_create |-> job_create, response |-> NoResponse,
                                   exception |-> None, critical |-> FALSE]
                             ELSE tasks[j]]
    /\ UNCHANGED gwVars

NoJob == [none |-> TRUE]

\* get_job(db, job_id): the row or None
get_job(tbl, job_id) == IF job_id \in DOMAIN tbl THEN tbl[job_id] ELSE NoJob

\* job.user_id != user.user_id and "admin" not in user.roles
NotJobReader_never(job, user) == FALSE
NotJobReader(job, user) ==
    job.user_id # user.claims.user_id /\ "admin" \notin Range(user.claims.roles)

\* get_job_endpoint: the status of the response and the JobRead returned
get_job_endpoint(tbl, job_id, user) ==
    LET job == get_job(tbl, job_id)
    IN  IF job = NoJob THEN [http_status |-> 404, body |-> NoJob]
        ELSE IF NotJobReader(job, user) THEN [http_status |-> 403, body |-> NoJob]
        ELSE [http_status |-> 200, body |-> job]

\* GET /mcp/jobs/{job_id}
GetJob ==
    /\ \E user \in CurrentUsers, job_id \in 1..(MaxJobs + 1) :
          \E r \in {get_job_endpoint(jobs, job_id, user)} :
              last' = [op |-> "get_job", job_id |-> job_id, user |-> user,
                       row |-> get_job(jobs, job_id),
                       http_status |-> r.http_status, body |-> r.body]
    /\ UNCHANGED <<jobs, tasks, shared_secret, tools_db, tool_cache, scope_cache,
                   audit_logs, posts, uuid, nreqs>>

\* process_job_task, step 1: update_job_status(db, job_id, RUNNING)
MarkRunning ==
    /\ \E job_id \in DOMAIN tasks, db \in UpdateOutcomes :
          /\ tasks[job_id].pc = "mark_running"
          /\ LET r == update_job_status(jobs, job_id, "running", None, None, db)
             IN  /\ jobs' = r.jobs
                 /\ tasks' = [tasks EXCEPT ![job_id] =
                                [@ EXCEPT !.pc = IF r.raised = None THEN "invoke" ELSE "except",
                                          !.exception = r.raised]]
    /\ UNCHANGED gwVars

\* process_job_task, step 2: gateway_invoke_tool with
\* request_id = job_create.request_id or str(job_id)
InvokeJobTool ==
    /\ \E job_id \in DOMAIN tasks, env \in JobEnvironments :
          /\ tasks[job_id].pc = "invoke"
          /\ LET t == tasks[job_id]
                 request == [tool_name |-> t.job_create.tool_name,
                             arguments |-> t.job_create.arguments,
                             request_id |-> IF Falsy(t.job_create.request_id)
                                            THEN JobIdStr(job_id)
                                            ELSE t.job_create.request_id]
                 r == invoke_tool(GatewayState, t.user, request, DefaultMaxPayloadBytes, env)
             IN  /\ tool_cache' = r.state.tool_cache
                 /\ audit_logs' = r.state.audit_logs
                 /\ posts' = r.state.posts
                 /\ uuid' = r.state.uuid
                 /\ last' = [op |-> "process_job_task", job_id |-> job_id,
                             request_id |-> r.request_id, outcome |-> r.outcome,
                             forwarded |-> r.forwarded, posted |-> r.posted,
                             url_path |-> "/mcp/jobs",
                             audit_before |-> audit_logs]
                 /\ tasks' = [tasks EXCEPT ![job_id] =
                                [@ EXCEPT !.pc = IF r.outcome # "returned" THEN "except"
                                                 ELSE IF ~Falsy(r.response.error)
                                                 THEN "update_failed"
                                                 ELSE "update_completed",
                                          !.response = r.response,
                                          !.exception = IF r.outcome # "returned"
                                                        THEN r.outcome ELSE None]]
    /\ UNCHANGED <<jobs, shared_secret, tools_db, scope_cache, nreqs>>

\* process_job_task, step 3, response.error set:
\* update_job_status(db, job_id, FAILED, error=response.error.message)
MarkFailed ==
    /\ \E job_id \in DOMAIN tasks, db \in UpdateOutcomes :
          /\ tasks[job_id].pc = "update_failed"
          /\ LET r == update_job_status(jobs, job_id, "failed", None,
                                        tasks[job_id].response.error, db)
             IN  /\ jobs' = r.jobs
                 /\ tasks' = [tasks EXCEPT ![job_id] =
                                [@ EXCEPT !.pc = IF r.raised = None THEN "done" ELSE "except",
                                          !.exception = r.raised]]
    /\ UNCHANGED gwVars

\* process_job_task, step 3, no error:
\* update_job_status(db, job_id, COMPLETED, result=response.result)
MarkCompleted ==
    /\ \E job_id \in DOMAIN tasks, db \in UpdateOutcomes :
          /\ tasks[job_id].pc = "update_completed"
          /\ LET r == update_job_status(jobs, job_id, "completed",
                                        tasks[job_id].response.result, None, db)
             IN  /\ jobs' = r.jobs
                 /\ tasks' = [tasks EXCEPT ![job_id] =
                                [@ EXCEPT !.pc = IF r.raised = None THEN "done" ELSE "except",
                                          !.exception = r.raised]]
    /\ UNCHANGED gwVars

\* the update of the except branch:
\* update_job_status(db, job_id, JobStatus.FAILED, error=str(e))
mark_failed_on_exception_skipped(tbl, job_id, e, db) == [jobs |-> tbl, raised |-> None]
mark_failed_on_exception(tbl, job_id, e, db) ==
    update_job_status(tbl, job_id, "failed", None, e, db)

\* process_job_task, except Exception as e:
\* update_job_status(db, job_id, FAILED, error=str(e)); if that raises too,
\* it is logged critical and dropped
HandleJobException ==
    /\ \E job_id \in DOMAIN tasks, db \in UpdateOutcomes :
          /\ tasks[job_id].pc = "except"
          /\ LET r == mark_failed_on_exception(jobs, job_id, tasks[job_id].exception, db)
             IN  /\ jobs' = r.jobs
                 /\ tasks' = [tasks EXCEPT ![job_id] =
                                [@ EXCEPT !.pc = "done",
                                          !.critical = r.raised # None]]
    /\ UNCHANGED gwVars

(***************************************************************************)
(* ------------------------------- JWT ----------------------------------- *)
(* src/src/auth/utils.py                                                   *)
(*                                                                         *)
(* A token is given by what its parts are: whether it parses, the alg its  *)
(* header declares, whether its signature verifies under the configured    *)
(* key, and its exp, aud and iss claims.  decode_jwt returns the           *)
(* outcome together with the checks it evaluated on the token, in the      *)
(* order of jose.jwt.decode (header, signature, then the claims) followed  *)
(* by the checks of decode_jwt itself.                                     *)
(***************************************************************************)
JwtAlgs == {"HS256", "RS256", "none", "NONE"}

\* str.upper() on the algorithm names of the model
Upper(a) ==
    CASE a = "none" -> "NONE"
      [] a = "hs256" -> "HS256"
      [] OTHER -> a

Tokens ==
    [well_formed : BOOLEAN, alg : JwtAlgs, signature_valid : BOOLEAN,
     exp : {"valid", "expired", "missing"}, aud : {"match", "mismatch"},
     iss : {"match", "mismatch"}]

\* JWT_ISSUER and JWT_AUDIENCE set or empty, JWT_ALLOWED_ALGORITHMS as the
\* items of the comma-separated value, JWT_ALGORITHM
JwtSettings ==
    [issuer_audience : BOOLEAN,
     allowed_algorithms : {{}, {"HS256"}, {"hs256"}, {"HS256", "none"}},
     algorithm : {"HS256"}]

\* _get_allowed_algorithms(settings): the normalized list, or raised
get_allowed_algorithms_lenient(settings) ==
    [raised |-> FALSE, algorithms |-> {Upper(a) : a \in settings.allowed_algorithms}]
get_allowed_algorithms(settings) ==
    LET normalized == { Upper(a) : a \in settings.allowed_algorithms }
    IN  IF normalized = {} \/ "NONE" \in normalized
           THEN [raised |-> TRUE, algorithms |-> {}]
        ELSE IF Upper(settings.algorithm) \notin normalized
           THEN [raised |-> TRUE, algorithms |-> {}]
        ELSE [raised |-> FALSE, algorithms |-> normalized]

JwtResult(outcome, checks) == [outcome |-> outcome, checks |-> checks]

\* jose.jwt.decode(token, key, algorithms, audience, issuer, options) with
\* verify_signature, verify_exp, verify_aud and verify_iss on
jwt_decode(token, algorithms) ==
    IF ~token.well_formed THEN JwtResult("JWTError", {"parse"})
    ELSE IF token.alg \notin algorithms
       THEN JwtResult("JWTError", {"parse", "header"})
    ELSE IF token.alg # "HS256"
       THEN JwtResult("JWKError", {"parse", "header", "signature"})
    ELSE IF ~token.signature_valid
       THEN JwtResult("JWTError", {"parse", "header", "signature"})
    ELSE IF token.exp = "expired"
       THEN JwtResult("ExpiredSignatureError",
                      {"parse", "header", "signature", "lifetime"})
    ELSE IF token.aud = "mismatch"
       THEN JwtResult("JWTError",
                      {"parse", "header", "signature", "lifetime", "audience"})
    ELSE IF token.iss = "mismatch"
       THEN JwtResult("JWTError",
                      {"parse", "header", "signature", "lifetime", "audience", "issuer"})
    ELSE JwtResult("payload",
                   {"parse", "header", "signature", "lifetime", "audience", "issuer"})

\* decode_jwt after jwt.decode has returned the payload: the exp claim is
\* required (the checks on nbf, iat and the api version are left out)
decode_jwt_claims(token, checks) ==
    IF token.exp = "missing" THEN JwtResult("InvalidTokenError", checks)
    ELSE JwtResult("payload", checks)

\* decode_jwt(token): "payload", or the exception raised
decode_jwt(token, settings) ==
    LET allowed == get_allowed_algorithms(settings)
        decoded == jwt_decode(token, allowed.algorithms)
    IN  IF ~settings.issuer_audience THEN JwtResult("InvalidTokenError", {})
        ELSE IF allowed.raised THEN JwtResult("InvalidTokenError", {})
        ELSE CASE decoded.outcome = "payload" ->
                      decode_jwt_claims(token, decoded.checks)
               [] decoded.outcome = "ExpiredSignatureError" ->
                      JwtResult("ExpiredTokenError", decoded.checks)
               [] decoded.outcome = "JWTError" ->
                      JwtResult("InvalidTokenError", decoded.checks)
               [] OTHER -> decoded

\* a call of auth.utils.decode_jwt
DecodeJwt ==
    /\ \E token \in Tokens, settings \in JwtSettings :
          \E r \in {decode_jwt(token, settings)} :
              last' = [op |-> "decode_jwt", token |-> token, settings |-> settings,
                       outcome |-> r.outcome, checks |-> r.checks]
    /\ UNCHANGED <<shared_secret, tools_db, tool_cache, scope_cache, audit_logs, posts,
                   uuid, nreqs>>

(***************************************************************************)
(* ------------- CONCURRENT CALLS OF RateLimiter.check ------------------- *)
(* src/src/ratelimit/limiter.py                                            *)
(*                                                                         *)
(* Threads call limiter.check(key, config) on one key at one clock         *)
(* reading.  TokenBucket objects have identity: _buckets maps the key to   *)
(* an object, and a thread consumes from the object it reads from the map. *)
(***************************************************************************)
VARIABLES
    rl_lock,       \* the thread holding RateLimiter._lock, or 0
    bucket_objs,   \* the TokenBucket objects created: id -> bucket and lock
    bucket_map,    \* RateLimiter._buckets: key -> id of a TokenBucket
    threads,       \* per thread: position in check, its bucket, its result
    start_tokens   \* tokens the key could give when the threads started

ccVars == <<rl_lock, bucket_objs, bucket_map, threads, start_tokens>>

MaxThreads == 3
Threads == 1..MaxThreads
RaceKey == UserKey("u1")

\* threading.Lock: acquire() goes through when no thread holds the lock
LockAvailable_always(holder) == TRUE
LockAvailable(holder) == holder = 0

\* a TokenBucket object: its fields and the holder of its _lock
BucketObject(config, tokens, t) ==
    [config |-> config, tokens |-> tokens, last_update |-> t, lock |-> 0]

\* the bucket of the key before the threads start: none, or one created at
\* this clock reading that has served some calls
ExistingTokens == {0, 1, 2}

ConcurrencyIdle ==
    /\ rl_lock = 0
    /\ bucket_objs = << >>
    /\ bucket_map = << >>
    /\ threads = << >>
    /\ start_tokens = 0

ConcurrencyInit ==
    /\ rl_lock = 0
    /\ \E config \in CustomConfigs :
          /\ threads = [t \in Threads |->
                           [pc |-> "start", config |-> config, bucket |-> 0,
                            allowed |-> FALSE]]
          /\ \/ /\ bucket_objs = << >>
                /\ bucket_map = << >>
                /\ start_tokens = config.burst_size
             \/ \E n \in ExistingTokens :
                   /\ n <= config.burst_size
                   /\ bucket_objs = <<BucketObject(config, n * TokenUnit, 0)>>
                   /\ bucket_map = [k \in {RaceKey} |-> 1]
                   /\ start_tokens = n

\* with self._lock: (RateLimiter.check), then self._cleanup_old_buckets(),
\* which returns at once while the cleanup interval has not passed
AcquireLimiterLock(t) ==
    /\ threads[t].pc = "start"
    /\ LockAvailable(rl_lock)
    /\ rl_lock' = t
    /\ threads' = [threads EXCEPT ![t].pc = "test"]
    /\ UNCHANGED <<bucket_objs, bucket_map, start_tokens>>

\* if key not in self._buckets:
TestKey(t) ==
    /\ threads[t].pc = "test"
    /\ threads' = [threads EXCEPT
                      ![t].pc = IF RaceKey \in DOMAIN bucket_map THEN "fetch" ELSE "create"]
    /\ UNCHANGED <<rl_lock, bucket_objs, bucket_map, start_tokens>>

\* self._buckets[key] = TokenBucket(config or self.config)
CreateBucket(t) ==
    /\ threads[t].pc = "create"
    /\ bucket_objs' = Append(bucket_objs,
                             BucketObject(threads[t].config,
                                          threads[t].config.burst_size * TokenUnit, now))
    /\ bucket_map' = [k \in DOMAIN bucket_map \cup {RaceKey} |->
                         IF k = RaceKey THEN Len(bucket_objs) + 1 ELSE bucket_map[k]]
    /\ threads' = [threads EXCEPT ![t].pc = "fetch"]
    /\ UNCHANGED <<rl_lock, start_tokens>>

\* self._buckets[key].consume(): the object is read from the map and its
\* _lock acquired
AcquireBucketLock(t) ==
    /\ threads[t].pc = "fetch"
    /\ \E b \in {bucket_map[RaceKey]} :
          /\ LockAvailable(bucket_objs[b].lock)
          /\ bucket_objs' = [bucket_objs EXCEPT ![b].lock = t]
          /\ threads' = [threads EXCEPT ![t].pc = "consume", ![t].bucket = b]
    /\ UNCHANGED <<rl_lock, bucket_map, start_tokens>>

\* the body of TokenBucket.consume under the bucket's lock: _refill, the
\* comparison and the decrement; the lock is released on return
ConsumeToken(t) ==
    /\ threads[t].pc = "consume"
    /\ \E b \in {threads[t].bucket} :
          \E c \in {Consume([config |-> bucket_objs[b].config,
                             tokens |-> bucket_objs[b].tokens,
                             last_update |-> bucket_objs[b].last_update], 1, now)} :
              /\ bucket_objs' = [bucket_objs EXCEPT
                                    ![b].tokens = c.bucket.tokens,
                                    ![b].last_update = c.bucket.last_update,
                                    ![b].lock = 0]
              /\ threads' = [threads EXCEPT ![t].pc = "release",
                                            ![t].allowed = c.result.allowed]
    /\ UNCHANGED <<rl_lock, bucket_map, start_tokens>>

\* leaving the with block of RateLimiter.check
ReleaseLimiterLock(t) ==
    /\ threads[t].pc = "release"
    /\ rl_lock' = IF rl_lock = t THEN 0 ELSE rl_lock
    /\ threads' = [threads EXCEPT ![t].pc = "done"]
    /\ UNCHANGED <<bucket_objs, bucket_map, start_tokens>>

vars == <<policyVars, rlVars, gwVars, jobVars, ccVars>>

InitPolicy ==
    PolicyInit /\ RateLimitInit /\ GatewayIdle /\ JobsInit /\ ConcurrencyIdle
NextPolicy == CheckToolPermission /\ UNCHANGED <<rlVars, gwVars, jobVars, ccVars>>
SpecPolicy == InitPolicy /\ [][NextPolicy]_vars

InitRateLimit ==
    PolicyIdle /\ RateLimitInit /\ GatewayIdle /\ JobsInit /\ ConcurrencyIdle
NextRateLimit ==
    \/ CheckRateLimit /\ UNCHANGED <<policyVars, gwVars, jobVars, ccVars>>
    \/ AdvanceClock /\ UNCHANGED <<policyVars, gwVars, jobVars, ccVars>>
SpecRateLimit == InitRateLimit /\ [][NextRateLimit]_vars

\* direct calls of the gateway and registry services
GatewayPolicyLoaded == policy = GatewayPolicy /\ perm = NoPerm
InitInvoke ==
    GatewayPolicyLoaded /\ RateLimitInit /\ GatewayInit /\ JobsInit /\ ConcurrencyIdle
NextInvoke ==
    \/ InvokeTool /\ UNCHANGED <<policyVars, rlVars, jobVars, ccVars>>
    \/ GetToolsForUser /\ UNCHANGED <<policyVars, rlVars, jobVars, ccVars>>
    \/ SyncTools /\ UNCHANGED <<policyVars, rlVars, jobVars, ccVars>>
SpecInvoke == InitInvoke /\ [][NextInvoke]_vars

\* requests at the HTTP endpoints
InitGateway ==
    /\ GatewayPolicyLoaded
    /\ GatewayInit
    /\ JobsInit
    /\ ConcurrencyIdle
    /\ now = 0
    /\ limiter \in {FreshLimiter, DrainedLimiter}
    /\ rl = NoRl
    /\ bucketHist = << >>
    /\ nchecks = 0
    /\ nticks = 0
NextGateway ==
    \/ InvokeEndpoint /\ UNCHANGED <<policyVars, jobVars, ccVars>>
    \/ ScopedToolsCall /\ UNCHANGED <<policyVars, jobVars, ccVars>>
SpecGateway == InitGateway /\ [][NextGateway]_vars

\* registry syncs at the startups of the service, as time passes
NextSync ==
    \/ SyncTools /\ UNCHANGED <<policyVars, rlVars, jobVars, ccVars>>
    \/ AdvanceClock /\ UNCHANGED <<policyVars, gwVars, jobVars, ccVars>>
SpecSync == InitInvoke /\ [][NextSync]_vars

\* policies whose tools section gates no tool, or gates exact_calculate by
\* the role admin while the registry row of that tool names no role
PermissionPolicies ==
    { GatewayPolicy,
      [GatewayPolicy EXCEPT
          !.tools = [t \in {"exact_calculate"} |-> [required_roles |-> <<"admin">>]]] }

\* direct calls of invoke_tool by the users get_current_user builds under
\* the loaded policy
InitPermission ==
    /\ policy \in PermissionPolicies /\ perm = NoPerm
    /\ RateLimitInit /\ GatewayInit /\ JobsInit /\ ConcurrencyIdle
NextPermission == InvokeTool /\ UNCHANGED <<policyVars, rlVars, jobVars, ccVars>>
SpecPermission == InitPermission /\ [][NextPermission]_vars

\* reads of the cached tool list between registry syncs, as time passes
NextCache ==
    \/ GetAllToolsCached /\ UNCHANGED <<policyVars, rlVars, jobVars, ccVars>>
    \/ SyncCachedTools /\ UNCHANGED <<policyVars, rlVars, jobVars, ccVars>>
    \/ AdvanceClockBy(CacheClockSteps) /\ UNCHANGED <<policyVars, gwVars, jobVars, ccVars>>
InitCache == InitInvoke /\ shared_secret = "s3cret"
SpecCache == InitCache /\ [][NextCache]_vars

\* direct calls of invoke_tool against a backend that answers, fails or
\* times out
NextFailures == InvokeToolOverOutcomes /\ UNCHANGED <<policyVars, rlVars, jobVars, ccVars>>
SpecFailures == InitInvoke /\ [][NextFailures]_vars

\* tokens presented to the JWT validator
NextAuth == DecodeJwt /\ UNCHANGED <<policyVars, rlVars, jobVars, ccVars>>
SpecAuth == InitInvoke /\ [][NextAuth]_vars

\* JSON-RPC messages at the scoped endpoints, between registry syncs
InitScoped == InitGateway /\ shared_secret = "s3cret" /\ limiter = FreshLimiter
NextScoped ==
    \/ ScopedPost /\ UNCHANGED <<policyVars, jobVars, ccVars>>
    \/ ScopedCall /\ UNCHANGED <<policyVars, jobVars, ccVars>>
    \/ SyncScopedTools /\ UNCHANGED <<policyVars, rlVars, jobVars, ccVars>>
SpecScoped == InitScoped /\ [][NextScoped]_vars

\* direct calls of the backend proxy
NextProxy == ForwardToolCall /\ UNCHANGED <<policyVars, rlVars, jobVars, ccVars>>
SpecProxy == InitInvoke /\ [][NextProxy]_vars

\* the exception handler for RateLimitExceededError over its inputs
NextRetryAfter == RateLimitHandler /\ UNCHANGED <<policyVars, rlVars, jobVars, ccVars>>
SpecRetryAfter == InitInvoke /\ [][NextRetryAfter]_vars

\* jobs submitted and processed by their background tasks
NextJobs ==
    \/ SubmitJob /\ UNCHANGED <<policyVars, rlVars, ccVars>>
    \/ MarkRunning /\ UNCHANGED <<policyVars, rlVars, ccVars>>
    \/ InvokeJobTool /\ UNCHANGED <<policyVars, rlVars, ccVars>>
    \/ MarkFailed /\ UNCHANGED <<policyVars, rlVars, ccVars>>
    \/ MarkCompleted /\ UNCHANGED <<policyVars, rlVars, ccVars>>
    \/ HandleJobException /\ UNCHANGED <<policyVars, rlVars, ccVars>>
SpecJobs == InitInvoke /\ [][NextJobs]_vars

\* jobs submitted, started and read through GET /mcp/jobs/{job_id}
NextJobReads ==
    \/ SubmitJob /\ UNCHANGED <<policyVars, rlVars, ccVars>>
    \/ MarkRunning /\ UNCHANGED <<policyVars, rlVars, ccVars>>
    \/ GetJob /\ UNCHANGED <<policyVars, rlVars, ccVars>>
SpecJobReads == InitInvoke /\ [][NextJobReads]_vars

\* consume calls on one token bucket as time passes
InitBucket == PolicyIdle /\ BucketInit /\ GatewayIdle /\ JobsInit /\ ConcurrencyIdle
NextBucket ==
    \/ TokenBucketConsume /\ UNCHANGED <<policyVars, gwVars, jobVars, ccVars>>
    \/ AdvanceClockBy(BucketClockSteps) /\ UNCHANGED <<policyVars, gwVars, jobVars, ccVars>>
SpecBucket == InitBucket /\ [][NextBucket]_vars

\* threads racing through RateLimiter.check on one key
InitConcurrent == PolicyIdle /\ RateLimitInit /\ GatewayIdle /\ JobsInit /\ ConcurrencyInit
NextConcurrent ==
    \E t \in Threads :
        \/ AcquireLimiterLock(t) /\ UNCHANGED <<policyVars, rlVars, gwVars, jobVars>>
        \/ TestKey(t) /\ UNCHANGED <<policyVars, rlVars, gwVars, jobVars>>
        \/ CreateBucket(t) /\ UNCHANGED <<policyVars, rlVars, gwVars, jobVars>>
        \/ AcquireBucketLock(t) /\ UNCHANGED <<policyVars, rlVars, gwVars, jobVars>>
        \/ ConsumeToken(t) /\ UNCHANGED <<policyVars, rlVars, gwVars, jobVars>>
        \/ ReleaseLimiterLock(t) /\ UNCHANGED <<policyVars, rlVars, gwVars, jobVars>>
SpecConcurrent == InitConcurrent /\ [][NextConcurrent]_vars

(***************************************************************************)
(* Claims about the policy engine                                          *)
(***************************************************************************)

\* C9: for claims with a workspace, a tool named in that workspace's
\* denied_tools is never permitted by check_tool_permission, also when the
\* user holds the wildcard and the role admin.
C9_DeniedToolsNeverPermitted ==
    (perm.called /\ perm.tool_name \in WorkspaceDenied(perm.claims, policy))
        => ~perm.permitted

\* C10: check_tool_permission returns true iff (the tool is in the derived
\* allowed_tools or "*" is in it) and (policy.tools[tool] has no
\* required_roles or the user holds at least one of them).
C10_PermissionIffAllowedAndRoleGate ==
    perm.called =>
        (perm.permitted <=>
            /\ (perm.tool_name \in perm.allowed_tools \/ "*" \in perm.allowed_tools)
            /\ (PolicyRequiredRoles(policy, perm.tool_name) = <<>>
                \/ AnyRoleHeld(PolicyRequiredRoles(policy, perm.tool_name),
                               perm.claims.roles)))

(***************************************************************************)
(* Claims about the rate limiter                                           *)
(***************************************************************************)

\* the bucket stored under key k is the same object in the same state as
\* before the last check_rate_limit call, or there is still none
BucketUntouched(k) ==
    k \in DOMAIN limiter.buckets =>
        /\ k \in DOMAIN rl.before.buckets
        /\ limiter.buckets[k] = rl.before.buckets[k]

\* the bucket stored under key k has served a consume call at the time of
\* the last check_rate_limit call, and paid one token iff res is allowed
BucketConsumed(k, res) ==
    /\ k \in DOMAIN limiter.buckets
    /\ limiter.buckets[k].last_update = rl.at
    /\ LET cleaned == CleanupOldBuckets(rl.before, rl.at)
           startTokens ==
               IF k \in DOMAIN cleaned.buckets
                  THEN Refill(cleaned.buckets[k], rl.at).tokens
                  ELSE limiter.buckets[k].config.burst_size * TokenUnit
       IN  limiter.buckets[k].tokens =
               IF res.allowed THEN startTokens - TokenUnit ELSE startTokens

\* C5: check_rate_limit(user, tool) consumes from user:{uid} first; if that
\* bucket denies, user:{uid}:tool:{tool} is neither created nor consumed and
\* the denial is returned; if it allows, the tool bucket is consumed and its
\* result is the result of the check.
C5_UserBucketFirstThenTool ==
    (rl.called /\ rl.tool_name # None) =>
        LET uk == UserKey(rl.user_id)
            tk == ToolKey(rl.user_id, rl.tool_name)
            first == rl.checks[1]
        IN  /\ first.key = uk
            /\ BucketConsumed(uk, first.result)
            /\ ~first.result.allowed =>
                   /\ Len(rl.checks) = 1
                   /\ rl.result = first.result
                   /\ BucketUntouched(tk)
            /\ first.result.allowed =>
                   /\ Len(rl.checks) = 2
                   /\ rl.checks[2].key = tk
                   /\ rl.result = rl.checks[2].result
                   /\ BucketConsumed(tk, rl.result)

\* C5 witness: the user bucket denied a call that named a tool.
C5_Witness_UserBucketDenied ==
    /\ rl.called
    /\ rl.tool_name # None
    /\ ~rl.checks[1].result.allowed
    /\ ToolKey(rl.user_id, rl.tool_name) \notin DOMAIN limiter.buckets

\* C6: for a fresh TokenBucket with burst_size B and no time elapsing, the
\* first B consume(1) calls are allowed and call B+1 is denied with
\* remaining = 0 and retry_after = 1 / tokens_per_second (> 0).
C6_BurstThenDenied ==
    rl.called =>
        \A i \in DOMAIN rl.checks :
            LET c == rl.checks[i]
                h == bucketHist[c.key]
                cfg == limiter.buckets[c.key].config
            IN  h.created_at = rl.at =>
                    /\ h.calls <= cfg.burst_size => c.result.allowed
                    /\ h.calls = cfg.burst_size + 1 =>
                          /\ ~c.result.allowed
                          /\ c.result.remaining = 0
                          /\ c.result.retry_after[1] > 0
                          /\ c.result.retry_after[1] * cfg.requests_per_minute
                                = SecondsPerMinute * c.result.retry_after[2]

\* C6 witness: call B+1 on a bucket created at the same clock reading.
C6_Witness_CallAfterBurst ==
    /\ rl.called
    /\ \E i \in DOMAIN rl.checks :
          LET c == rl.checks[i]
          IN  /\ bucketHist[c.key].created_at = rl.at
              /\ bucketHist[c.key].calls = limiter.buckets[c.key].config.burst_size + 1
              /\ ~c.result.allowed

(***************************************************************************)
(* C2: invoke_tool calls forward_tool_call only when every gate passes:    *)
(* the payload is at most max_payload_bytes, the tool name is in the       *)
(* user's allowed_tools or the user holds "*", the tool is in the cached   *)
(* snapshot of active tools, and required_roles is empty or shares a role  *)
(* with the user.  Otherwise nothing is sent to a backend and the          *)
(* exception of the first failing gate is raised.                          *)
(***************************************************************************)
C2_PayloadOk == PayloadSize(last.request.arguments) <= last.max_payload_bytes
C2_Allowed ==
    \/ last.request.tool_name \in last.user.allowed_tools
    \/ "*" \in last.user.allowed_tools
C2_InSnapshot ==
    \E i \in DOMAIN last.snapshot : last.snapshot[i].name = last.request.tool_name
C2_RolesOk ==
    \A i \in DOMAIN last.snapshot :
        last.snapshot[i].name = last.request.tool_name =>
            \/ last.snapshot[i].required_roles = <<>>
            \/ \E j \in DOMAIN last.snapshot[i].required_roles :
                  \E k \in DOMAIN last.user.claims.roles :
                      last.snapshot[i].required_roles[j] = last.user.claims.roles[k]
C2_AllGatesPass == C2_PayloadOk /\ C2_Allowed /\ C2_InSnapshot /\ C2_RolesOk
C2_MatchingException ==
    IF ~C2_PayloadOk THEN "PayloadTooLargeError"
    ELSE IF ~C2_Allowed THEN "ToolNotAllowedError"
    ELSE IF ~C2_InSnapshot THEN "ToolNotFoundError"
    ELSE "ToolNotAllowedError"
C2_ForwardOnlyWhenAllGatesPass ==
    last.op = "invoke_tool" =>
        /\ last.forwarded <=> C2_AllGatesPass
        /\ last.posted => last.forwarded
        /\ ~C2_AllGatesPass /\ last.env.audit_ok => last.outcome = C2_MatchingException
C2_Witness_RoleGatedToolForwarded ==
    /\ last.op = "invoke_tool"
    /\ last.request.tool_name = "document_generate"
    /\ last.forwarded
    /\ last.posted

(***************************************************************************)
(* C3: every POST the proxy makes carries X-Gateway-Auth equal to the      *)
(* configured TOOL_GATEWAY_SHARED_SECRET, and with an empty secret the     *)
(* call raises BackendError and makes no POST.                             *)
(***************************************************************************)
C3_PostOnlyWithSharedSecret ==
    /\ \A p \in BagToSet(posts) :
          p.headers["X-Gateway-Auth"] = shared_secret /\ shared_secret # ""
    /\ last.op = "forward_tool_call" /\ shared_secret = "" =>
          last.outcome = "BackendError" /\ ~last.posted
C3_Witness_PostSent ==
    /\ last.op = "forward_tool_call"
    /\ last.posted
    /\ last.sent.headers["X-Gateway-Auth"] = "s3cret"

(***************************************************************************)
(* C8: no listing path returns and no dispatch path forwards to a tool     *)
(* whose row in the table has is_active = FALSE at that time, also while   *)
(* a snapshot cached earlier is held.                                      *)
(***************************************************************************)
C8_RowActive(name) == name \in DOMAIN tools_db /\ tools_db[name].is_active
C8_InactiveToolsNeverServed ==
    /\ last.op = "invoke_tool" /\ last.forwarded => C8_RowActive(last.request.tool_name)
    /\ last.op = "get_tools_for_user" =>
          \A i \in DOMAIN last.tools : C8_RowActive(last.tools[i])

(***************************************************************************)
(* C1: every completed tool-invocation request, whether allowed, denied    *)
(* (rate-limited, not allowed, not found, out of scope) or failed at the   *)
(* backend, has written exactly one audit row carrying its request id.     *)
(* Stated for POST /mcp/invoke, whose request id is known, and for the     *)
(* requests whose audit INSERT does not fail.                              *)
(***************************************************************************)
C1_ExactlyOneAuditRowPerRequest ==
    last.op = "invoke_endpoint" /\ last.env.audit_ok =>
        RowsWithRequestId(audit_logs, last.request_id) = last.rows_before + 1

(***************************************************************************)
(* C7: a tools/call on /{scope}/sse that reaches dispatch for a tool of    *)
(* the active snapshot whose scope differs from the URL scope is answered  *)
(* HTTP 200 with JSON-RPC error -32011 after exactly one denied audit row  *)
(* with error_code TOOL_NOT_IN_SCOPE has been written; nothing is          *)
(* forwarded to a backend and no usage_count changes.                      *)
(***************************************************************************)
C7_OutOfScopeCall ==
    /\ last.op = "tools_call"
    /\ last.dispatched
    /\ last.env.audit_ok
    /\ \E i \in DOMAIN last.snapshot :
          /\ last.snapshot[i].name = last.tool_name
          /\ last.snapshot[i].is_active
          /\ last.snapshot[i].scope # last.scope
C7_DeniedRow ==
    [request_id |-> last.request_id, user_id |-> last.user_id,
     tool_name |-> last.tool_name, endpoint_path |-> "/" \o last.scope \o "/sse",
     status |-> "error", error_code |-> "TOOL_NOT_IN_SCOPE"]
C4_AllowedEdges ==
    {<<"pending", "running">>, <<"running", "completed">>, <<"running", "failed">>}

C4_JobStatusOneWay ==
    [][\A job_id \in DOMAIN jobs :
          jobs'[job_id].status # jobs[job_id].status
             => <<jobs[job_id].status, jobs'[job_id].status>> \in C4_AllowedEdges]_vars

(***************************************************************************)
(* C11: in get_allowed_tools_for_user, when the workspace of the user      *)
(* declares an allowed_tools list other than ["*"], the allowed set before *)
(* the denies are subtracted is exactly that list, with nothing from the   *)
(* roles of the user; when it declares ["*"], it is the union over the     *)
(* roles plus "*".                                                         *)
(***************************************************************************)
C11_WorkspaceDeclared ==
    /\ perm.called
    /\ perm.claims.workspace \in DOMAIN policy.workspaces
    /\ "allowed_tools" \in DOMAIN policy.workspaces[perm.claims.workspace]

C11_WorkspaceListReplacesRoleUnion ==
    C11_WorkspaceDeclared =>
        LET ws_allowed == policy.workspaces[perm.claims.workspace].allowed_tools
            before_denies == AfterWorkspaceAllow(perm.claims, policy)
        IN  IF ws_allowed = <<"*">>
            THEN before_denies = RoleUnion(perm.claims, policy) \cup {"*"}
            ELSE before_denies = Range(ws_allowed)

(***************************************************************************)
(* C12: a tools/call whose backend returned a result leaves the            *)
(* usage_count of the invoked tool exactly 1 higher than before, and a     *)
(* request with any other outcome changes no usage_count.                  *)
(***************************************************************************)
C12_Succeeded ==
    /\ last.op = "tools_call"
    /\ last.posted
    /\ last.env.post = "result"
    /\ last.env.audit_ok

C12_UsageCountOnSuccess ==
    last.op = "tools_call" =>
        IF C12_Succeeded
        THEN tools_db = increment_tool_usage(last.db_before,
                                             last.db_before[last.tool_name].id, now)
        ELSE tools_db = last.db_before

(***************************************************************************)
(* C13: GET /mcp/jobs/{id} returns the job record only when the caller's   *)
(* user_id equals the job's user_id or the caller holds role admin; a      *)
(* missing job is answered 404 and every other caller 403, neither with    *)
(* the record.                                                             *)
(***************************************************************************)
C13_OwnerOrAdmin ==
    \/ last.row.user_id = last.user.claims.user_id
    \/ "admin" \in Range(last.user.claims.roles)

C13_JobReadByOwnerOrAdmin ==
    last.op = "get_job" =>
        IF last.row = NoJob
        THEN last.http_status = 404 /\ last.body = NoJob
        ELSE IF C13_OwnerOrAdmin
        THEN last.http_status = 200 /\ last.body = last.row
        ELSE last.http_status = 403 /\ last.body = NoJob

C13_Witness_ForeignJobRefused ==
    /\ last.op = "get_job"
    /\ last.row # NoJob
    /\ ~C13_OwnerOrAdmin
    /\ last.http_status = 403

(***************************************************************************)
(* C14: when the gateway call of process_job_task returned an MCP envelope *)
(* and the status update that follows succeeded, the job ends completed    *)
(* with the envelope's result if the envelope carries a result, and        *)
(* otherwise ends failed with the envelope's error message.                *)
(***************************************************************************)
C14_EnvelopeRecorded(job_id) ==
    /\ tasks[job_id].pc = "done"
    /\ tasks[job_id].response # NoResponse
    /\ tasks[job_id].exception = None

C14_ResultCompletesElseFails ==
    \A job_id \in DOMAIN tasks :
        C14_EnvelopeRecorded(job_id) =>
            IF tasks[job_id].response.result # None
            THEN /\ jobs[job_id].status = "completed"
                 /\ jobs[job_id].result = tasks[job_id].response.result
            ELSE /\ jobs[job_id].status = "failed"
                 /\ jobs[job_id].error = tasks[job_id].response.error

(***************************************************************************)
(* C15: when a step of process_job_task raised (marking RUNNING, the       *)
(* gateway call or the final status update), the task tries to set the job *)
(* failed with the exception's message and ends without propagating; when  *)
(* that update raises too, the job record is left as it was, or is already *)
(* failed with that message if the update's commit had taken effect before *)
(* it raised.                                                              *)
(***************************************************************************)
C15_ExceptStep(job_id) ==
    /\ tasks[job_id].pc = "except"
    /\ tasks'[job_id].pc = "done"

C15_FailedWritten(job_id) ==
    /\ jobs'[job_id].status = "failed"
    /\ jobs'[job_id].error = tasks[job_id].exception

C15_FailedAttemptNeverPropagates ==
    [][\A job_id \in DOMAIN tasks :
          C15_ExceptStep(job_id) =>
              /\ tasks[job_id].exception # None
              /\ IF tasks'[job_id].critical
                 THEN jobs'[job_id] = jobs[job_id] \/ C15_FailedWritten(job_id)
                 ELSE C15_FailedWritten(job_id)]_vars

C15_Witness_FailedUpdateFailedToo ==
    \E job_id \in DOMAIN tasks :
        /\ tasks[job_id].pc = "done"
        /\ tasks[job_id].critical
        /\ jobs[job_id].status # "failed"

\* C15 as stated: a failing update of the except branch always leaves the
\* job record as it was
C15_RecordLeftWhenFailedUpdateFails ==
    [][\A job_id \in DOMAIN tasks :
          C15_ExceptStep(job_id) =>
              IF tasks'[job_id].critical
              THEN jobs'[job_id] = jobs[job_id]
              ELSE C15_FailedWritten(job_id)]_vars

(***************************************************************************)
(* C16: the audit scope of invoke_tool persists its record on exit whether *)
(* the body returned or raised, and what the body raised reaches the       *)
(* caller unchanged once the record is persisted.  Stated for the          *)
(* invocations whose audit INSERT succeeds; a failing INSERT is C17.       *)
(***************************************************************************)
C16_ScopePersistsAndPassesOn ==
    (last.op = "invoke_tool" /\ last.env.audit_ok) =>
        /\ RowsWithRequestId(audit_logs, last.request_id) = last.rows_before + 1
        /\ CopiesIn(last.audit, audit_logs) >= 1
        /\ last.outcome = last.body_outcome

C16_Witness_RaisedInsideScope ==
    /\ last.op = "invoke_tool"
    /\ last.env.audit_ok
    /\ last.body_outcome = "ToolNotFoundError"
    /\ last.outcome = "ToolNotFoundError"
    /\ last.audit.error_code = "TOOL_NOT_FOUND"

(***************************************************************************)
(* C17: a failure to persist the audit row does not propagate: when the    *)
(* INSERT fails on scope exit, invoke_tool still returns its response or   *)
(* still raises its original exception, never the persistence error.       *)
(***************************************************************************)
C17_AuditFailureDoesNotPropagate ==
    (last.op = "invoke_tool" /\ ~last.env.audit_ok) =>
        last.outcome = last.body_outcome

(***************************************************************************)
(* C18: the endpoint_path of the audit row a request writes equals the URL *)
(* path that served the request, on every path that writes an audit row:   *)
(* POST /mcp/invoke, POST /{scope}/sse and the jobs submitted on           *)
(* POST /mcp/jobs.                                                         *)
(***************************************************************************)
C18_NewRows == BagToSet(audit_logs (-) last.audit_before)

C18_EndpointPathIsServingUrl ==
    "url_path" \in DOMAIN last =>
        \A row \in C18_NewRows : row.endpoint_path = last.url_path

(***************************************************************************)
(* C19: a backend failure raised while a tool call is served is not        *)
(* recovered by the handler: BackendError (here: no shared secret) is      *)
(* answered 502 and BackendTimeoutError 504, never 200 with the failure as *)
(* a result.  Stated for the requests whose audit INSERT succeeds.         *)
(***************************************************************************)
C19_ServedToolCall ==
    /\ last.op \in {"invoke_endpoint", "tools_call"}
    /\ last.forwarded
    /\ last.env.audit_ok

C19_BackendErrorsReachMappers ==
    C19_ServedToolCall =>
        /\ ~last.posted => last.http_status = 502
        /\ (last.posted /\ last.env.post = "timeout") => last.http_status = 504

(***************************************************************************)
(* C20: the response to a rate-limited tool call is 429 and its            *)
(* Retry-After header is the ceiling of the limiter's retry_after in       *)
(* seconds, for every positive retry_after.                                *)
(***************************************************************************)
C20_Ceiling(q) == (q[1] + q[2] - 1) \div q[2]

C20_RetryAfterIsCeiling ==
    last.op = "rate_limit_handler" =>
        /\ last.response.status_code = 429
        /\ last.response.headers["Retry-After"] =
               ToString(C20_Ceiling(last.exc.retry_after))

\* C21: a tools/call on a valid scope whose name is find_tools or call_tool
\* is answered with HTTP 200 and JSON-RPC error -32012; handle_tools_call is
\* not entered, nothing is posted to a backend, and neither the audit table,
\* the registry nor the rate limiter's buckets change.
C21_MetaToolCall ==
    /\ last.op = "tools_call"
    /\ last.tool_name \in {"find_tools", "call_tool"}
    /\ last.scope \in ToolScopes
C22_UnknownScopePost ==
    /\ last.op \in {"sse_post", "tools_call"}
    /\ last.scope \notin {"calculator", "git", "docs"}
C22_NoHandlerRan ==
    /\ last.op = "sse_post" => last.handler = "none"
    /\ last.op = "tools_call" => ~last.dispatched
C23_MayAccess(user, row) ==
    /\ "*" \in user.allowed_tools \/ row.name \in user.allowed_tools
    /\ row.required_roles = <<>>
       \/ \E i \in DOMAIN row.required_roles, j \in DOMAIN user.claims.roles :
             row.required_roles[i] = user.claims.roles[j]
C23_Listed ==
    /\ last.op = "sse_post"
    /\ last.method = "tools/list"
    /\ last.handler = "handle_tools_list"
    /\ last.code = 0
C23_ListIsActiveScopedAccessible ==
    C23_Listed =>
        Range(last.tools) =
            { n \in DOMAIN tools_db \ {"find_tools", "call_tool"} :
                /\ tools_db[n].is_active
                /\ tools_db[n].scope = last.scope
                /\ C23_MayAccess(last.user, tools_db[n]) }

\* C24: after sync_tools_from_config has completed against a catalog, every
\* registry row whose name is not in that catalog has is_active = FALSE, the
\* catalog that lists no tools included.
C24_CatalogNames == { last.catalog[i].name : i \in DOMAIN last.catalog }
C24_AbsentNamesDeactivated ==
    (last.op = "sync_tools_from_config" /\ last.outcome = "returned") =>
        \A n \in DOMAIN tools_db : n \notin C24_CatalogNames => ~tools_db[n].is_active

\* C25: a second sync_tools_from_config against the catalog of the sync
\* before it creates no row and changes no attribute of any row.
C25_SyncedTwice ==
    /\ last.op = "sync_tools_from_config"
    /\ last.outcome = "returned"
    /\ last'.op = "sync_tools_from_config"
    /\ last'.outcome = "returned"
    /\ last'.catalog = last.catalog
C25_SyncIsIdempotent == [][ C25_SyncedTwice => tools_db' = tools_db ]_vars

\* C26: within one POST /mcp/invoke the steps run in the order permission,
\* rate-limit consumption, registry lookup, forward, audit persist, response:
\* a request refused for lack of permission consumes no rate-limit token, a
\* request the limiter refuses looks nothing up and forwards nothing, and a
\* response is returned only with the request's audit row persisted.
C26_InvokeStep == last'.op = "invoke_endpoint" /\ nreqs' = nreqs + 1
C26_StepsInOrder ==
    [][ C26_InvokeStep =>
            /\ last'.outcome = "ToolNotAllowedError" => limiter' = limiter
            /\ ~last'.rate_allowed =>
                   /\ tool_cache' = tool_cache
                   /\ posts' = posts
                   /\ ~last'.forwarded
            /\ last'.outcome = "returned" =>
                   RowsWithRequestId(audit_logs', last'.request_id) >= 1 ]_vars

\* C27: a well-formed token whose header declares alg none, in either case,
\* is rejected with InvalidTokenError under every configuration, and
\* neither its signature, its audience, its issuer nor its lifetime has been
\* evaluated when it is rejected.
C27_AlgNoneToken ==
    /\ last.op = "decode_jwt"
    /\ last.token.well_formed
    /\ last.token.alg \in {"none", "NONE"}
C27_AlgNoneRejectedFirst ==
    C27_AlgNoneToken =>
        /\ last.outcome = "InvalidTokenError"
        /\ last.checks \cap {"signature", "audience", "issuer", "lifetime"} = {}
C27_Witness_ExpiredAlgNone ==
    /\ C27_AlgNoneToken
    /\ last.settings.issuer_audience
    /\ last.settings.allowed_algorithms = {"HS256"}
    /\ last.token.exp = "expired"
    /\ last.token.aud = "mismatch"
    /\ last.outcome = "InvalidTokenError"
    /\ "header" \in last.checks

\* C28: a sweep of the rate limiter removes only buckets last used more than
\* 10 minutes before it: after a check_rate_limit call, every bucket that
\* was used within the 10 minutes before the call is still present, was not
\* created anew by the call, and, unless the call consumed from it, is
\* unchanged, token count included.
C28_CheckedKeys == { rl.checks[i].key : i \in DOMAIN rl.checks }
C28_Recreated == { rl.checks[i].key : i \in {j \in DOMAIN rl.checks : rl.checks[j].created} }
C28_RecentlyUsed(k) == rl.before.buckets[k].last_update >= rl.at - 600
C28_SweepKeepsRecentBuckets ==
    rl.called =>
        \A k \in DOMAIN rl.before.buckets :
            C28_RecentlyUsed(k) =>
                /\ k \in DOMAIN limiter.buckets
                /\ k \notin C28_Recreated
                /\ k \notin C28_CheckedKeys => limiter.buckets[k] = rl.before.buckets[k]
C28_Witness_SweptAndKept ==
    /\ rl.called
    /\ rl.at - rl.before.last_cleanup >= 300
    /\ limiter.last_cleanup = rl.at
    /\ \E k \in DOMAIN rl.before.buckets :
          /\ k \notin C28_CheckedKeys
          /\ rl.before.buckets[k].last_update = rl.at - 600
          /\ k \in DOMAIN limiter.buckets

\* C29: when invoke_tool fails with BackendTimeoutError, BackendUnavailableError,
\* BackendError, ToolNotFoundError, ToolNotAllowedError or PayloadTooLargeError
\* and the audit INSERT succeeds, the one row persisted for the invocation
\* has status timeout and error_code BACKEND_TIMEOUT for the timeout, and
\* status error with error_code BACKEND_UNAVAILABLE, BACKEND_ERROR (the
\* BackendError's code), TOOL_NOT_FOUND, TOOL_NOT_ALLOWED or
\* PAYLOAD_TOO_LARGE for the others; the same exception reaches the caller.
C29_Failures ==
    {"BackendTimeoutError", "BackendUnavailableError", "BackendError",
     "ToolNotFoundError", "ToolNotAllowedError", "PayloadTooLargeError"}
C29_FailedInvocation ==
    /\ last.op = "invoke_tool"
    /\ last.env.audit_ok
    /\ last.body_outcome \in C29_Failures
C29_ExpectedRow ==
    [request_id |-> last.request_id, user_id |-> last.user.claims.user_id,
     tool_name |-> last.request.tool_name, endpoint_path |-> "/unknown",
     status |-> IF last.body_outcome = "BackendTimeoutError" THEN "timeout" ELSE "error",
     error_code |->
        CASE last.body_outcome = "BackendTimeoutError" -> "BACKEND_TIMEOUT"
          [] last.body_outcome = "BackendUnavailableError" -> "BACKEND_UNAVAILABLE"
          [] last.body_outcome = "BackendError" -> "BACKEND_ERROR"
          [] last.body_outcome = "ToolNotFoundError" -> "TOOL_NOT_FOUND"
          [] last.body_outcome = "ToolNotAllowedError" -> "TOOL_NOT_ALLOWED"
          [] last.body_outcome = "PayloadTooLargeError" -> "PAYLOAD_TOO_LARGE"]
C29_FailureRecordedAndReraised ==
    C29_FailedInvocation =>
        /\ RowsWithRequestId(audit_logs, last.request_id) = last.rows_before + 1
        /\ CopiesIn(C29_ExpectedRow, audit_logs) >= 1
        /\ last.outcome = last.body_outcome
C29_Witness_UnavailableRecorded ==
    /\ C29_FailedInvocation
    /\ last.env.post = "connect_error"
    /\ last.posted
    /\ last.outcome = "BackendUnavailableError"
    /\ CopiesIn(C29_ExpectedRow, audit_logs) = 1

(***************************************************************************)
(* C30: forward_to_backend maps each outcome of the POST to exactly one    *)
(* result: a per-call timeout raises BackendTimeoutError, a connection or  *)
(* other network error raises BackendUnavailableError, an HTTP status of   *)
(* 400 or more raises BackendError carrying that status and the first 200  *)
(* characters of the body (the whole body when it is shorter), and any     *)
(* lower status returns the parsed JSON-RPC response as it is, also when   *)
(* it has an error member, without an exception.  Stated for a POST that   *)
(* was made and, on success, a body that parses as a JSON-RPC response.    *)
(***************************************************************************)
C30_Posted == last.op = "forward_tool_call" /\ last.posted
C30_HttpStatus == [http_error |-> 500, http_400 |-> 400, http_404 |-> 404]
C30_First200(body) == [i \in 1..(IF Len(body) < 200 THEN Len(body) ELSE 200) |-> body[i]]
C30_Parsed ==
    [result |-> [result |-> "ok", error |-> None],
     http_399 |-> [result |-> "ok", error |-> None],
     rpc_error |-> [result |-> None, error |-> "tool failed"],
     null_result |-> [result |-> None, error |-> None],
     result_and_error |-> [result |-> "ok", error |-> "tool failed"]]
C30_EachOutcomeMapped ==
    C30_Posted =>
        /\ last.post = "timeout" =>
              last.outcome = "BackendTimeoutError" /\ last.response = NoResponse
        /\ last.post \in {"connect_error", "request_error"} =>
              last.outcome = "BackendUnavailableError" /\ last.response = NoResponse
        /\ last.post \in DOMAIN C30_HttpStatus =>
              /\ last.outcome = "BackendError" /\ last.response = NoResponse
              /\ last.status_code = C30_HttpStatus[last.post]
              /\ Len(last.detail) <= 200
              /\ last.detail = C30_First200(response_text(last.post))
        /\ last.post \in DOMAIN C30_Parsed =>
              /\ last.outcome = "returned"
              /\ last.response.id = last.sent.json.id
              /\ last.response.result = C30_Parsed[last.post].result
              /\ last.response.error = C30_Parsed[last.post].error
C30_Witness_LongBodyTruncated ==
    /\ C30_Posted
    /\ last.post = "http_error"
    /\ Len(response_text(last.post)) = 201
    /\ last.outcome = "BackendError"
    /\ last.status_code = 500
    /\ Len(last.detail) = 200

(***************************************************************************)
(* C31: get_all_tools_cached returns the cached snapshot, without querying *)
(* the database, if and only if a snapshot was stored less than 5 minutes  *)
(* ago and the cache has not been cleared since; otherwise it reads the    *)
(* active tools from the database and stores them as the new snapshot.     *)
(***************************************************************************)
C31_SnapshotHeld == tool_cache # NoCache /\ now - tool_cache.stored_at < 300
C31_Read == last'.op = "get_all_tools_cached" /\ nreqs' = nreqs + 1
C31_CachedIffFreshSnapshot ==
    [][C31_Read =>
          /\ ~last'.queried <=> C31_SnapshotHeld
          /\ C31_SnapshotHeld =>
                /\ ~last'.raised
                /\ last'.tools = tool_cache.tools
                /\ tool_cache' = tool_cache
          /\ ~C31_SnapshotHeld /\ last'.db_ok =>
                /\ ~last'.raised
                /\ last'.tools = get_all_active_tools(tools_db)
                /\ tool_cache' = [tools |-> get_all_active_tools(tools_db),
                                  stored_at |-> now]]_vars
C31_Witness_ServedFromSnapshot ==
    /\ last.op = "get_all_tools_cached"
    /\ ~last.queried
    /\ tool_cache # NoCache
    /\ now - tool_cache.stored_at = 299
    /\ last.tools = tool_cache.tools

(***************************************************************************)
(* C32: every run of sync_tools_from_config, whatever the catalog, leaves  *)
(* the tool cache empty when it ends, so that the next                     *)
(* get_all_tools_cached reads the database rather than a snapshot taken    *)
(* before the sync.                                                        *)
(***************************************************************************)
C32_SyncEnded == last.op = "sync_tools_from_config"
C32_CacheEmptyAfterSync == C32_SyncEnded => tool_cache = NoCache

(***************************************************************************)
(* C33: every request sent to a backend for user u and tool t is preceded, *)
(* within the same request or job, by a rate-limit check that was allowed  *)
(* and consumed a token from both user:u and user:u:tool:t; this holds for *)
(* every entry path that reaches invoke_tool, including tool calls         *)
(* submitted through POST /mcp/jobs.                                       *)
(***************************************************************************)
C33_TokenTaken(key) ==
    /\ key \in DOMAIN limiter.buckets
    /\ limiter.buckets[key].tokens
          <= (limiter.buckets[key].config.burst_size - 1) * TokenUnit
C33_Checked(user_id, tool_name) ==
    C33_TokenTaken(UserKey(user_id)) /\ C33_TokenTaken(ToolKey(user_id, tool_name))
C33_SentAfterRateLimitCheck ==
    /\ last.op = "invoke_endpoint" /\ last.posted =>
          last.rate_allowed /\ C33_Checked(last.user_id, last.tool_name)
    /\ last.op = "process_job_task" /\ last.posted =>
          C33_Checked(jobs[last.job_id].user_id, jobs[last.job_id].tool_name)

(***************************************************************************)
(* C34: invoke_tool never forwards a call that the policy engine would     *)
(* reject: for every user and tool, a backend request is sent only if      *)
(* check_tool_permission(claims, tool, policy) is true; in particular a    *)
(* tool gated in policy.tools by required_roles the caller lacks is never  *)
(* sent to a backend, also for a wildcard caller.                          *)
(***************************************************************************)
C34_Sent == last.op = "invoke_tool" /\ last.posted
C34_PolicyGatePasses(claims, tool_name) ==
    \/ tool_name \notin DOMAIN policy.tools
    \/ policy.tools[tool_name].required_roles = <<>>
    \/ \E i \in DOMAIN policy.tools[tool_name].required_roles :
          policy.tools[tool_name].required_roles[i] \in Range(claims.roles)
C34_SentOnlyIfPolicyPermits ==
    C34_Sent =>
        /\ check_tool_permission(last.user.claims, last.request.tool_name, policy)
        /\ C34_PolicyGatePasses(last.user.claims, last.request.tool_name)

(***************************************************************************)
(* C35: an audit row with status=success is persisted by invoke_tool only  *)
(* if the backend call returned a response to the caller: every invocation *)
(* that ends by raising, including exceptions outside the gateway taxonomy *)
(* such as a registry or database failure or an unparsable backend body,   *)
(* is recorded with a non-success status.                                  *)
(***************************************************************************)
C35_RowsOfInvocation ==
    {row \in BagToSet(audit_logs) : row.request_id = last.request_id}
C35_SuccessRowOnlyWhenReturned ==
    last.op = "invoke_tool" =>
        \A row \in C35_RowsOfInvocation :
            row.status = "success" => last.outcome = "returned"

(***************************************************************************)
(* C36: a rate-limit check that returns allowed=false leaves the token     *)
(* count of every bucket unchanged apart from time-based refill; in        *)
(* particular a request denied by the per-tool bucket does not cost the    *)
(* user a token from the user-level bucket.                                *)
(***************************************************************************)
C36_Denied == rl.called /\ ~rl.result.allowed
C36_RefilledTokens(b, t) ==
    IF b.tokens + (t - b.last_update) * b.config.requests_per_minute
          < b.config.burst_size * TokenUnit
       THEN b.tokens + (t - b.last_update) * b.config.requests_per_minute
       ELSE b.config.burst_size * TokenUnit
C36_DeniedCheckCostsNothing ==
    C36_Denied =>
        \A k \in DOMAIN limiter.buckets :
            IF k \in DOMAIN rl.before.buckets
               THEN limiter.buckets[k].tokens
                       \in {rl.before.buckets[k].tokens,
                            C36_RefilledTokens(rl.before.buckets[k], rl.at)}
               ELSE limiter.buckets[k].tokens
                       = limiter.buckets[k].config.burst_size * TokenUnit

(***************************************************************************)
(* C37: under any interleaving of concurrent RateLimiter.check calls on    *)
(* the same key with no refill between them, the number of calls that      *)
(* return allowed never exceeds the bucket's capacity at the start          *)
(* (burst_size for a key that does not exist yet): no token is spent twice *)
(* and racing first calls on a new key never end up with two separate      *)
(* buckets.                                                                *)
(***************************************************************************)
C37_Allowed == {t \in DOMAIN threads : threads[t].allowed}
C37_Returned == {t \in DOMAIN threads : threads[t].pc \in {"release", "done"}}
C37_AllowedWithinCapacity ==
    /\ Cardinality(C37_Allowed) <= start_tokens
    /\ Len(bucket_objs) <= 1
    /\ \A t \in C37_Returned : threads[t].bucket = 1
    /\ \A b \in DOMAIN bucket_objs :
          bucket_objs[b].tokens = (start_tokens - Cardinality(C37_Allowed)) * TokenUnit
C37_Witness_RaceOnNewKey ==
    /\ threads # << >>
    /\ \A t \in DOMAIN threads : threads[t].pc = "done"
    /\ Len(bucket_objs) = 1
    /\ start_tokens = 2
    /\ bucket_objs[1].last_update = now
    /\ Cardinality(C37_Allowed) = 2
    /\ Cardinality(DOMAIN threads \ C37_Allowed) >= 1

(***************************************************************************)
(* C38: in every reachable state each token bucket satisfies               *)
(* 0 <= tokens <= burst_size, for any sequence of consume calls and any    *)
(* non-decreasing sequence of clock readings.                              *)
(***************************************************************************)
C38_TokensWithinBounds ==
    \A k \in DOMAIN limiter.buckets :
        /\ 0 <= limiter.buckets[k].tokens
        /\ limiter.buckets[k].tokens <= limiter.buckets[k].config.burst_size * TokenUnit
C38_Witness_DrainedAfterRefill ==
    /\ "tokens" \in DOMAIN rl
    /\ rl.result.allowed
    /\ limiter.buckets[rl.key].last_update >= 601
    /\ limiter.buckets[rl.key].tokens = 0

(***************************************************************************)
(* C39: if the catalog contains a duplicate tool name,                     *)
(* sync_tools_from_config fails with an error and leaves the registry      *)
(* unchanged: no row has been created, updated or deactivated by the       *)
(* failed sync, whatever the position of the duplicate in the catalog.     *)
(***************************************************************************)
C39_HasDuplicate(catalog) ==
    \E i, j \in DOMAIN catalog : i # j /\ catalog[i].name = catalog[j].name
C39_SyncStep == last'.op = "sync_tools_from_config"
C39_DuplicateLeavesRegistryUnchanged ==
    [][C39_SyncStep /\ C39_HasDuplicate(last'.catalog) =>
          /\ last'.outcome = "ValueError"
          /\ tools_db' = tools_db]_vars

(***************************************************************************)
(* C40: in every reachable state each job record is self-consistent:       *)
(* completed_at is set iff status is COMPLETED or FAILED, a COMPLETED job  *)
(* has no error, a FAILED job has an error and no result, and a PENDING or *)
(* RUNNING job has neither result nor error, for any outcome of the tool   *)
(* call and any failure of an individual status update.                    *)
(***************************************************************************)
C40_Consistent(job) ==
    /\ job.completed <=> job.status \in {"completed", "failed"}
    /\ job.status = "completed" => job.error = None
    /\ job.status = "failed" => job.error # None /\ job.result = None
    /\ job.status \in {"pending", "running"} => job.result = None /\ job.error = None
C40_JobRecordsConsistent == \A j \in DOMAIN jobs : C40_Consistent(jobs[j])

====
